---------------------------- MODULE Spec2Model ----------------------------
(***************************************************************************)
(* A model of the split-radix FFT (scalar and AVX), the fixed-size AVX     *)
(* mixed-radix kernels and the CommonSimdData boilerplate of RustFFT.      *)
(*                                                                         *)
(* Numbers.  An f32 is modelled as an element of the prime field GF(P),    *)
(* P = 6143, with exact addition and multiplication; a Complex<f32> is a   *)
(* pair <<re, im>>, i.e. an element of GF(P)[i]/(i^2+1).  P = 3 (mod 4),   *)
(* so the complex numbers of norm 1 form a cyclic group of order           *)
(* P + 1 = 6144 = 2^11 * 3.  G generates it and G^(Order/4) = -i, so       *)
(* G^(Order/N) plays the role of exp(-2*pi*i/N) for every N dividing       *)
(* 6144.  Rounding is not modelled: equalities stated here are the exact   *)
(* identities the floating point code approximates.                        *)
(*                                                                         *)
(* Slices are sequences; At(s, i) reads index i of the source (0-based).   *)
(***************************************************************************)
EXTENDS Integers, Sequences, FiniteSets, TLC

P == (2^11) * 3 - 1
Order == P + 1
G == <<10, 1066>>

Zero == <<0, 0>>
One == <<1, 0>>

\* f32 arithmetic (exact, in GF(P))
FAdd(a, b) == (a + b) % P
FSub(a, b) == (a - b) % P
FMul(a, b) == (a * b) % P
FNeg(a) == (0 - a) % P

\* num_complex::Complex arithmetic
CAdd(x, y) == <<(x[1] + y[1]) % P, (x[2] + y[2]) % P>>
CSub(x, y) == <<(x[1] - y[1]) % P, (x[2] - y[2]) % P>>
CMul(x, y) ==
    <<(x[1] * y[1] - x[2] * y[2]) % P, (x[1] * y[2] + x[2] * y[1]) % P>>
CConj(x) == <<x[1], (0 - x[2]) % P>>
CScale(x, c) == <<(x[1] * c) % P, (x[2] * c) % P>>

(***************************************************************************)
(* let value = e; rest  is written  Let([value \in {e} |-> rest]), and     *)
(* let (a, b) = e; rest  is written  Let([<<a, b>> \in {e} |-> rest]):     *)
(* the value of e is computed once and bound to the name.                  *)
(***************************************************************************)
Let(f) == f[CHOOSE value \in DOMAIN f : TRUE]

RECURSIVE CPow(_, _)
CPow(z, k) ==
    IF k = 0 THEN One
    ELSE IF k % 2 = 0
         THEN LET h == CPow(z, k \div 2) IN CMul(h, h)
         ELSE CMul(z, CPow(z, k - 1))

\* the roots of unity, RootTable[k + 1] = G^k
RootTable == [k \in 1..Order |-> CPow(G, k - 1)]

\* twiddles::single_twiddle(i, fft_len, inverse) = exp(-+ 2 pi i * i / fft_len)
single_twiddle(i, fft_len, inverse) ==
    Let([w \in {RootTable[((i % fft_len) * (Order \div fft_len)) + 1]} |->
        IF inverse THEN CConj(w) ELSE w])

\* twiddles::rotate_90: multiply by -i (forward) or +i (inverse)
rotate_90(x, inverse) ==
    IF inverse THEN <<(0 - x[2]) % P, x[1]>> ELSE <<x[2], (0 - x[1]) % P>>

\* slices: 0-based reads and writes of a sequence
At(s, i) == s[i + 1]
Put(s, i, v) == [s EXCEPT ![i + 1] = v]
Slice(s, from, to) == SubSeq(s, from + 1, to)

\* the indices of the non-zero samples of x (0-based), in increasing order
Support(x) ==
    SelectSeq([n \in 1..Len(x) |-> n - 1], LAMBDA n : At(x, n) # Zero)

RECURSIVE CSum(_, _, _, _, _, _)
CSum(x, k, inverse, idx, lo, hi) ==
    IF lo > hi THEN Zero
    ELSE IF lo = hi
         THEN CMul(At(x, idx[lo]), single_twiddle(k * idx[lo], Len(x), inverse))
         ELSE LET mid == (lo + hi) \div 2
              IN  CAdd(CSum(x, k, inverse, idx, lo, mid),
                       CSum(x, k, inverse, idx, mid + 1, hi))

\* the unnormalized DFT of x: X[k] = sum_n x[n] * W^(k n), W = exp(-+ 2 pi i / N)
Dft(x, inverse) ==
    LET idx == Support(x)
    IN  [k \in 1..Len(x) |-> CSum(x, k - 1, inverse, idx, 1, Len(idx))]

(***************************************************************************)
(* Transform handles.  A handle is a record with a "kind" field; the inner *)
(* handles of a split-radix handle are records of the same shape.          *)
(***************************************************************************)
NoHandle == [kind |-> "none"]

\* algorithm::DFT, the O(n^2) reference transform used as inner transform
DFT_new(len, inverse) == [kind |-> "DFT", len |-> len, inverse |-> inverse]

\* Length::len
HLen(h) ==
    CASE h.kind = "MixedRadixAvx4x2" -> 8
      [] h.kind = "MixedRadixAvx4x4" -> 16
      [] h.kind = "MixedRadixAvx4x8" -> 32
      [] h.kind = "MixedRadixAvx8x8" -> 64
      [] h.kind = "CommonSimd" -> h.common_data.len
      [] OTHER -> h.len

\* IsInverse::is_inverse
HIsInverse(h) ==
    IF h.kind = "CommonSimd" THEN h.common_data.inverse ELSE h.inverse

\* the outcome of a constructor: a handle, a panic, or the recoverable Err(())
CtorOk(h) == [status |-> "ok", handle |-> h]
CtorPanic == [status |-> "panic", handle |-> NoHandle]
CtorErr == [status |-> "err", handle |-> NoHandle]

\* the constructor with a twiddle for every index of the half transform
SplitRadix_new_half_twiddles(fft_half, fft_quarter) ==
    IF HIsInverse(fft_half) # HIsInverse(fft_quarter) THEN CtorPanic
    ELSE IF HLen(fft_half) # HLen(fft_quarter) * 2 THEN CtorPanic
    ELSE CtorOk([kind |-> "SplitRadix",
                 twiddles |-> [i \in 1..HLen(fft_half) |->
                                  single_twiddle(i - 1, HLen(fft_quarter) * 4,
                                                 HIsInverse(fft_quarter))],
                 fft_half |-> fft_half,
                 fft_quarter |-> fft_quarter,
                 len |-> HLen(fft_quarter) * 4,
                 inverse |-> HIsInverse(fft_quarter)])

\* a constructor that compares the directions only and takes inner
\* transforms of any two lengths
SplitRadix_new_any_lengths(fft_half, fft_quarter) ==
    IF HIsInverse(fft_half) # HIsInverse(fft_quarter) THEN CtorPanic
    ELSE LET inverse == HIsInverse(fft_quarter)
             quarter_len == HLen(fft_quarter)
             len == quarter_len * 4
         IN  CtorOk([kind |-> "SplitRadix",
                     twiddles |-> [i \in 1..quarter_len |->
                                      single_twiddle(i - 1, len, inverse)],
                     fft_half |-> fft_half,
                     fft_quarter |-> fft_quarter,
                     len |-> len,
                     inverse |-> inverse])

\* SplitRadix::new
SplitRadix_new(fft_half, fft_quarter) ==
    IF HIsInverse(fft_half) # HIsInverse(fft_quarter) THEN CtorPanic
    ELSE IF HLen(fft_half) # HLen(fft_quarter) * 2 THEN CtorPanic
    ELSE LET inverse == HIsInverse(fft_quarter)
             quarter_len == HLen(fft_quarter)
             len == quarter_len * 4
         IN  CtorOk([kind |-> "SplitRadix",
                     twiddles |-> [i \in 1..quarter_len |->
                                      single_twiddle(i - 1, len, inverse)],
                     fft_half |-> fft_half,
                     fft_quarter |-> fft_quarter,
                     len |-> len,
                     inverse |-> inverse])

(***************************************************************************)
(* The memory a call works on: the caller's buffer and scratch, and how    *)
(* the call stands: "ok", "panic" (a failed assertion or slice split) or   *)
(* "ub" (an unchecked access outside its slice).                           *)
(***************************************************************************)
Mem(buffer, scratch, status) ==
    [buffer |-> buffer, scratch |-> scratch, status |-> status]

Ub(m) == [m EXCEPT !.status = "ub"]
Panic(m) == [m EXCEPT !.status = "panic"]

\* common::verify_length_inline: assert_eq!(buffer.len(), expected)
verify_length_inline(buffer, expected) == Len(buffer) = expected

\* common::verify_length_minimum: assert!(buffer.len() >= minimum)
verify_length_minimum(buffer, minimum) == Len(buffer) >= minimum

\* SplitRadix::get_required_scratch_len
SplitRadix_get_required_scratch_len(h) == h.len \div 2

\* the capped scratch length of SplitRadix::process_inline
SplitRadix_capped(h, scratch) ==
    IF Len(scratch) > SplitRadix_get_required_scratch_len(h)
    THEN SplitRadix_get_required_scratch_len(h)
    ELSE Len(scratch)

\* perform_fft, lines 71-72: the statements before the decimation loop
SplitRadix_decimate_first(h, m) ==
    LET quarter_len == h.len \div 4
        cap == SplitRadix_capped(h, m.scratch)
    IN  IF quarter_len > cap THEN Panic(m)
        ELSE IF ~(0 < quarter_len /\ 2 < Len(m.buffer)) THEN Ub(m)
        ELSE Mem(Put(m.buffer, 1, At(m.buffer, 2)),
                 Put(m.scratch, 0, At(m.buffer, 1)),
                 "ok")

\* the iteration with the third odd sample of its own group of four, not of
\* the group before it, stored at scratch_quarter3[i]
SplitRadix_decimate_step_unrotated(h, m, i) ==
    LET quarter_len == h.len \div 4
        cap == SplitRadix_capped(h, m.scratch)
    IN  IF ~(i < cap - quarter_len /\ i * 4 + 3 < Len(m.buffer)) THEN Ub(m)
        ELSE Let([s1 \in {Put(m.scratch, quarter_len + i, At(m.buffer, i * 4 + 3))} |->
             Let([b1 \in {Put(m.buffer, i * 2, At(m.buffer, i * 4))} |->
             Let([s2 \in {Put(s1, i, At(b1, i * 4 + 1))} |->
             Let([b2 \in {Put(b1, i * 2 + 1, At(b1, i * 4 + 2))} |->
                 Mem(b2, s2, "ok")])])])])

\* perform_fft, lines 73-78: one iteration of the decimation loop
SplitRadix_decimate_step(h, m, i) ==
    LET quarter_len == h.len \div 4
        cap == SplitRadix_capped(h, m.scratch)
    IN  IF ~(i < cap - quarter_len /\ i * 4 + 2 < Len(m.buffer)) THEN Ub(m)
        ELSE Let([s1 \in {Put(m.scratch, quarter_len + i, At(m.buffer, i * 4 - 1))} |->
             Let([b1 \in {Put(m.buffer, i * 2, At(m.buffer, i * 4))} |->
             Let([s2 \in {Put(s1, i, At(b1, i * 4 + 1))} |->
             Let([b2 \in {Put(b1, i * 2 + 1, At(b1, i * 4 + 2))} |->
                 Mem(b2, s2, "ok")])])])])

RECURSIVE SplitRadix_decimate_loop(_, _, _, _)
SplitRadix_decimate_loop(h, m, lo, hi) ==
    IF lo > hi \/ m.status # "ok" THEN m
    ELSE IF lo = hi THEN SplitRadix_decimate_step(h, m, lo)
    ELSE LET mid == (lo + hi) \div 2
             left == SplitRadix_decimate_loop(h, m, lo, mid)
         IN  IF left.status # "ok" THEN left
             ELSE SplitRadix_decimate_loop(h, left, mid + 1, hi)

\* the decimation without the statement after the loop: scratch_quarter3[0]
\* keeps what the scratch held before the call
SplitRadix_decimate_last_skipped(h, m) == m

\* perform_fft, line 79: the statement after the decimation loop
SplitRadix_decimate_last(h, m) ==
    LET quarter_len == h.len \div 4
        cap == SplitRadix_capped(h, m.scratch)
    IN  IF m.status # "ok" THEN m
        ELSE IF ~(0 < cap - quarter_len /\ 0 < Len(m.buffer)) THEN Ub(m)
        ELSE Mem(m.buffer,
                 Put(m.scratch, quarter_len, At(m.buffer, Len(m.buffer) - 1)),
                 "ok")

\* perform_fft, line 73: for i in 1..quarter_len, as <<start, end>> of the
\* half-open range
SplitRadix_decimate_range(h) == <<1, h.len \div 4>>

\* perform_fft, lines 67-79: the decimation stage
SplitRadix_decimate(h, m) ==
    LET first == SplitRadix_decimate_first(h, m)
    IN  IF first.status # "ok" THEN first
        ELSE SplitRadix_decimate_last(h,
                 SplitRadix_decimate_loop(h, first,
                     SplitRadix_decimate_range(h)[1],
                     SplitRadix_decimate_range(h)[2] - 1))

\* FftInline::get_required_scratch_len of DFT
DFT_get_required_scratch_len(h) == h.len

\* FftInline::process_inline of DFT: the result is computed into the scratch
\* and copied back to the buffer
DFT_process_inline(h, buffer, scratch) ==
    IF ~verify_length_inline(buffer, h.len) THEN Mem(buffer, scratch, "panic")
    ELSE IF ~verify_length_minimum(scratch, DFT_get_required_scratch_len(h))
    THEN Mem(buffer, scratch, "panic")
    ELSE Let([out \in {Dft(buffer, h.inverse)} |->
             Mem(out, out \o Slice(scratch, h.len, Len(scratch)), "ok")])

RECURSIVE process_inline(_, _, _)

\* a slice of the caller's buffer or scratch, as a range of its elements
Region(of, from, to) == [of |-> of, from |-> from, to |-> to]

\* an invocation of an inner transform: the transform, its data slice and
\* its scratch slice
InnerCall(fft, data, scr) == [fft |-> fft, data |-> data, scratch |-> scr]

Cut(m, r) ==
    Slice(IF r.of = "buffer" THEN m.buffer ELSE m.scratch, r.from, r.to)

Paste(m, r, x) ==
    IF r.of = "buffer"
    THEN Mem(Slice(m.buffer, 0, r.from) \o x
                 \o Slice(m.buffer, r.to, Len(m.buffer)),
             m.scratch, m.status)
    ELSE Mem(m.buffer,
             Slice(m.scratch, 0, r.from) \o x
                 \o Slice(m.scratch, r.to, Len(m.scratch)),
             m.status)

InRegion(m, r) ==
    r.from <= r.to
        /\ r.to <= Len(IF r.of = "buffer" THEN m.buffer ELSE m.scratch)

\* c.fft.process_inline(data, scratch) on the two slices of the call c; a
\* slice that reaches outside what it is cut from panics
Invoke(c, m) ==
    IF m.status # "ok" THEN m
    ELSE IF ~(InRegion(m, c.data) /\ InRegion(m, c.scratch)) THEN Panic(m)
    ELSE Let([r \in {process_inline(c.fft, Cut(m, c.data), Cut(m, c.scratch))} |->
             LET pasted == Paste(Paste(m, c.data, r.buffer), c.scratch, r.scratch)
             IN  Mem(pasted.buffer, pasted.scratch, r.status)])

\* perform_fft, lines 82 and 85: fft_half on buffer[..half_len], with the
\* second half of the buffer as its scratch
SplitRadix_call_half(h, m) ==
    LET half_len == h.len \div 2
    IN  InnerCall(h.fft_half, Region("buffer", 0, half_len),
                  Region("buffer", half_len, Len(m.buffer)))

SplitRadix_inner_half(h, m) == Invoke(SplitRadix_call_half(h, m), m)

\* perform_fft, lines 68 and 86: fft_quarter on scratch_quarter1
SplitRadix_call_quarter1(h, m) ==
    LET half_len == h.len \div 2
        quarter_len == h.len \div 4
    IN  InnerCall(h.fft_quarter, Region("scratch", 0, quarter_len),
                  Region("buffer", half_len, Len(m.buffer)))

SplitRadix_inner_quarter1(h, m) == Invoke(SplitRadix_call_quarter1(h, m), m)

\* perform_fft, lines 68 and 87: fft_quarter on scratch_quarter3, the rest of
\* the capped scratch
SplitRadix_call_quarter3(h, m) ==
    LET half_len == h.len \div 2
        quarter_len == h.len \div 4
        cap == SplitRadix_capped(h, m.scratch)
    IN  InnerCall(h.fft_quarter, Region("scratch", quarter_len, cap),
                  Region("buffer", half_len, Len(m.buffer)))

SplitRadix_inner_quarter3(h, m) == Invoke(SplitRadix_call_quarter3(h, m), m)

\* the recombination step with the quarter3 stream multiplied by the
\* twiddle itself instead of its conjugate
SplitRadix_recombine_step_noconj(h, m, i) ==
    LET half_len == h.len \div 2
        quarter_len == h.len \div 4
        cap == SplitRadix_capped(h, m.scratch)
    IN  IF ~(/\ i < Len(h.twiddles)
             /\ i + quarter_len * 3 < Len(m.buffer)
             /\ i + half_len < Len(m.buffer)
             /\ i < quarter_len
             /\ i < cap - quarter_len) THEN Ub(m)
        ELSE Let([twiddle \in {At(h.twiddles, i)} |->
             Let([half0_result \in {At(m.buffer, i)} |->
             Let([half1_result \in {At(m.buffer, i + quarter_len)} |->
             Let([twiddled_quarter1 \in {CMul(twiddle, At(m.scratch, i))} |->
             Let([twiddled_quarter3 \in {CMul(twiddle, At(m.scratch, quarter_len + i))} |->
             Let([quarter_sum \in {CAdd(twiddled_quarter1, twiddled_quarter3)} |->
             Let([quarter_diff \in {CSub(twiddled_quarter1, twiddled_quarter3)} |->
             Let([rotated_quarter_diff \in {rotate_90(quarter_diff, h.inverse)} |->
                 Mem([m.buffer EXCEPT
                        ![i + 1] = CAdd(half0_result, quarter_sum),
                        ![i + half_len + 1] = CSub(half0_result, quarter_sum),
                        ![i + quarter_len + 1] =
                            CAdd(half1_result, rotated_quarter_diff),
                        ![i + quarter_len * 3 + 1] =
                            CSub(half1_result, rotated_quarter_diff)],
                     m.scratch, "ok")])])])])])])])])

\* the recombination step with the rotation of the forward transform in
\* both directions
SplitRadix_recombine_step_forward(h, m, i) ==
    LET half_len == h.len \div 2
        quarter_len == h.len \div 4
        cap == SplitRadix_capped(h, m.scratch)
    IN  IF ~(/\ i < Len(h.twiddles)
             /\ i + quarter_len * 3 < Len(m.buffer)
             /\ i + half_len < Len(m.buffer)
             /\ i < quarter_len
             /\ i < cap - quarter_len) THEN Ub(m)
        ELSE Let([twiddle \in {At(h.twiddles, i)} |->
             Let([half0_result \in {At(m.buffer, i)} |->
             Let([half1_result \in {At(m.buffer, i + quarter_len)} |->
             Let([twiddled_quarter1 \in {CMul(twiddle, At(m.scratch, i))} |->
             Let([twiddled_quarter3 \in {CMul(CConj(twiddle), At(m.scratch, quarter_len + i))} |->
             Let([quarter_sum \in {CAdd(twiddled_quarter1, twiddled_quarter3)} |->
             Let([quarter_diff \in {CSub(twiddled_quarter1, twiddled_quarter3)} |->
             Let([rotated_quarter_diff \in {rotate_90(quarter_diff, FALSE)} |->
                 Mem([m.buffer EXCEPT
                        ![i + 1] = CAdd(half0_result, quarter_sum),
                        ![i + half_len + 1] = CSub(half0_result, quarter_sum),
                        ![i + quarter_len + 1] =
                            CAdd(half1_result, rotated_quarter_diff),
                        ![i + quarter_len * 3 + 1] =
                            CSub(half1_result, rotated_quarter_diff)],
                     m.scratch, "ok")])])])])])])])])

\* a recombination that writes its second quarter one element further up
SplitRadix_recombine_writes_shifted(h, i) ==
    <<i, i + h.len \div 2, i + h.len \div 4 + 1, i + (h.len \div 4) * 3>>

\* perform_fft, lines 93-94: the buffer indices iteration i reads
SplitRadix_recombine_reads(h, i) == <<i, i + h.len \div 4>>

\* perform_fft, lines 103-107: the buffer indices iteration i writes
SplitRadix_recombine_writes(h, i) ==
    <<i, i + h.len \div 2, i + h.len \div 4, i + (h.len \div 4) * 3>>

\* perform_fft, lines 90-108: one iteration of the recombination loop
SplitRadix_recombine_step(h, m, i) ==
    LET half_len == h.len \div 2
        quarter_len == h.len \div 4
        cap == SplitRadix_capped(h, m.scratch)
    IN  Let([reads \in {SplitRadix_recombine_reads(h, i)} |->
        Let([writes \in {SplitRadix_recombine_writes(h, i)} |->
        IF ~(/\ i < Len(h.twiddles)
             /\ \A k \in 1..2 : reads[k] < Len(m.buffer)
             /\ \A k \in 1..4 : writes[k] < Len(m.buffer)
             /\ i < quarter_len
             /\ i < cap - quarter_len) THEN Ub(m)
        ELSE Let([twiddle \in {At(h.twiddles, i)} |->
             Let([half0_result \in {At(m.buffer, reads[1])} |->
             Let([half1_result \in {At(m.buffer, reads[2])} |->
             Let([twiddled_quarter1 \in {CMul(twiddle, At(m.scratch, i))} |->
             Let([twiddled_quarter3 \in {CMul(CConj(twiddle), At(m.scratch, quarter_len + i))} |->
             Let([quarter_sum \in {CAdd(twiddled_quarter1, twiddled_quarter3)} |->
             Let([quarter_diff \in {CSub(twiddled_quarter1, twiddled_quarter3)} |->
             Let([rotated_quarter_diff \in {rotate_90(quarter_diff, h.inverse)} |->
             Let([b1 \in {Put(m.buffer, writes[1], CAdd(half0_result, quarter_sum))} |->
             Let([b2 \in {Put(b1, writes[2], CSub(half0_result, quarter_sum))} |->
             Let([b3 \in {Put(b2, writes[3],
                              CAdd(half1_result, rotated_quarter_diff))} |->
             Let([b4 \in {Put(b3, writes[4],
                              CSub(half1_result, rotated_quarter_diff))} |->
                 Mem(b4, m.scratch, "ok")])])])])])])])])])])])])])])

RECURSIVE SplitRadix_recombine_loop(_, _, _, _)
SplitRadix_recombine_loop(h, m, lo, hi) ==
    IF lo > hi \/ m.status # "ok" THEN m
    ELSE IF lo = hi THEN SplitRadix_recombine_step(h, m, lo)
    ELSE LET mid == (lo + hi) \div 2
             left == SplitRadix_recombine_loop(h, m, lo, mid)
         IN  IF left.status # "ok" THEN left
             ELSE SplitRadix_recombine_loop(h, left, mid + 1, hi)

\* perform_fft, line 90: for i in 0..quarter_len
SplitRadix_recombine_range(h) == <<0, h.len \div 4>>

\* perform_fft, lines 89-108: the recombination stage
SplitRadix_recombine(h, m) ==
    SplitRadix_recombine_loop(h, m, SplitRadix_recombine_range(h)[1],
                              SplitRadix_recombine_range(h)[2] - 1)

\* SplitRadix::perform_fft
SplitRadix_perform_fft(h, m) ==
    LET decimated == SplitRadix_decimate(h, m)
        half == SplitRadix_inner_half(h, decimated)
        quarter1 == SplitRadix_inner_quarter1(h, half)
        quarter3 == SplitRadix_inner_quarter3(h, quarter1)
    IN  SplitRadix_recombine(h, quarter3)

\* the length checks of SplitRadix::process_inline
SplitRadix_checks(h, buffer, scratch) ==
    /\ verify_length_inline(buffer, HLen(h))
    /\ verify_length_minimum(scratch, SplitRadix_get_required_scratch_len(h))

\* FftInline::process_inline of SplitRadix
SplitRadix_process_inline(h, buffer, scratch) ==
    IF ~SplitRadix_checks(h, buffer, scratch) THEN Mem(buffer, scratch, "panic")
    ELSE SplitRadix_perform_fft(h, Mem(buffer, scratch, "ok"))

(***************************************************************************)
(* AVX.  A __m256 is a tuple of 8 floats, lane 0 first; the intrinsics     *)
(* follow the Intel intrinsics guide.  A load or store of a __m256 at      *)
(* complex index i covers the four complex samples i .. i+3.               *)
(***************************************************************************)
mm256_add_ps(a, b) == [j \in 1..8 |-> (a[j] + b[j]) % P]
mm256_sub_ps(a, b) == [j \in 1..8 |-> (a[j] - b[j]) % P]
mm256_mul_ps(a, b) == [j \in 1..8 |-> (a[j] * b[j]) % P]

\* _mm256_xor_ps(a, _mm256_set1_ps(-0.0)): flip the sign bit of every lane
mm256_xor_ps_neg0(a) == [j \in 1..8 |-> (0 - a[j]) % P]

\* _mm256_fmaddsub_ps: a*b - c in the even lanes, a*b + c in the odd lanes
mm256_fmaddsub_ps(a, b, c) ==
    [j \in 1..8 |-> IF j % 2 = 1 THEN (a[j] * b[j] - c[j]) % P
                    ELSE (a[j] * b[j] + c[j]) % P]

\* _mm256_fmsubadd_ps: a*b + c in the even lanes, a*b - c in the odd lanes
mm256_fmsubadd_ps(a, b, c) ==
    [j \in 1..8 |-> IF j % 2 = 1 THEN (a[j] * b[j] + c[j]) % P
                    ELSE (a[j] * b[j] - c[j]) % P]

mm256_moveldup_ps(a) == <<a[1], a[1], a[3], a[3], a[5], a[5], a[7], a[7]>>
mm256_movehdup_ps(a) == <<a[2], a[2], a[4], a[4], a[6], a[6], a[8], a[8]>>

mm256_unpacklo_ps(a, b) == <<a[1], b[1], a[2], b[2], a[5], b[5], a[6], b[6]>>
mm256_unpackhi_ps(a, b) == <<a[3], b[3], a[4], b[4], a[7], b[7], a[8], b[8]>>

\* _mm256_permute_ps: in each 128-bit half, lane j takes lane imm[2j+1:2j]
mm256_permute_ps(a, imm) ==
    [j \in 1..8 |->
        LET base == IF j > 4 THEN 4 ELSE 0
            k == (j - 1) % 4
        IN  a[base + ((imm \div (4 ^ k)) % 4) + 1]]

\* the 128-bit half that a control nibble of _mm256_permute2f128_ps selects
Select4(a, b, control) ==
    IF (control \div 8) % 2 = 1 THEN <<0, 0, 0, 0>>
    ELSE CASE control % 4 = 0 -> SubSeq(a, 1, 4)
           [] control % 4 = 1 -> SubSeq(a, 5, 8)
           [] control % 4 = 2 -> SubSeq(b, 1, 4)
           [] control % 4 = 3 -> SubSeq(b, 5, 8)

mm256_permute2f128_ps(a, b, imm) ==
    Select4(a, b, imm % 16) \o Select4(a, b, (imm \div 16) % 16)

\* _mm256_blend_ps: lane j comes from b when bit j of imm is set
mm256_blend_ps(a, b, imm) ==
    [j \in 1..8 |-> IF (imm \div (2 ^ (j - 1))) % 2 = 1 THEN b[j] ELSE a[j]]

\* _mm256_set_ps(e7, ..., e0): the last argument is lane 0
mm256_set_ps(e7, e6, e5, e4, e3, e2, e1, e0) ==
    <<e0, e1, e2, e3, e4, e5, e6, e7>>

\* whether a 4-sample load or store at complex index i lies inside the slice
InBounds4(len, index) == 0 <= index /\ index + 4 <= len

\* macro load_avx_f32
load_avx_f32(array, index) ==
    <<array[index + 1][1], array[index + 1][2],
      array[index + 2][1], array[index + 2][2],
      array[index + 3][1], array[index + 3][2],
      array[index + 4][1], array[index + 4][2]>>

\* macro store_avx_f32
store_avx_f32(array, index, source) ==
    [array EXCEPT ![index + 1] = <<source[1], source[2]>>,
                  ![index + 2] = <<source[3], source[4]>>,
                  ![index + 3] = <<source[5], source[6]>>,
                  ![index + 4] = <<source[7], source[8]>>]

\* macro split_evens_f32
split_evens_f32(row0, row1) ==
    Let([permuted0 \in {mm256_permute2f128_ps(row0, row1, 32)} |->    \* 0x20
    Let([permuted1 \in {mm256_permute2f128_ps(row0, row1, 49)} |->    \* 0x31
    Let([unpacked1 \in {mm256_unpackhi_ps(permuted0, permuted1)} |->
    Let([unpacked0 \in {mm256_unpacklo_ps(permuted0, permuted1)} |->
    Let([output1 \in {mm256_permute_ps(unpacked1, 216)} |->           \* 0xD8
    Let([output0 \in {mm256_permute_ps(unpacked0, 216)} |->           \* 0xD8
        <<output0, output1>>])])])])])])

\* a product whose last instruction subtracts where the macro adds and adds
\* where it subtracts
complex_multiply_f32_subadd(left, right) ==
    Let([left_real \in {mm256_moveldup_ps(left)} |->
    Let([left_imag \in {mm256_movehdup_ps(left)} |->
    Let([right_shuffled \in {mm256_permute_ps(right, 177)} |->
    Let([output_right \in {mm256_mul_ps(left_imag, right_shuffled)} |->
        mm256_fmsubadd_ps(left_real, right, output_right)])])])])

\* macro complex_multiply_f32
complex_multiply_f32(left, right) ==
    Let([left_real \in {mm256_moveldup_ps(left)} |->
    Let([left_imag \in {mm256_movehdup_ps(left)} |->
    Let([right_shuffled \in {mm256_permute_ps(right, 177)} |->        \* 0xB1
    Let([output_right \in {mm256_mul_ps(left_imag, right_shuffled)} |->
        mm256_fmaddsub_ps(left_real, right, output_right)])])])])

\* macro complex_conj_multiply_f32
complex_conj_multiply_f32(left, right) ==
    Let([left_real \in {mm256_moveldup_ps(left)} |->
    Let([left_imag \in {mm256_movehdup_ps(left)} |->
    Let([right_shuffled \in {mm256_permute_ps(right, 177)} |->        \* 0xB1
    Let([output_right \in {mm256_mul_ps(left_imag, right_shuffled)} |->
        mm256_fmsubadd_ps(left_real, right, output_right)])])])])

\* macro column_butterfly2_avx_f32
column_butterfly2_avx_f32(row0, row1) ==
    Let([output0 \in {mm256_add_ps(row0, row1)} |->
    Let([output1 \in {mm256_sub_ps(row0, row1)} |->
        <<output0, output1>>])])

\* macro column_butterfly2_negaterow1_avx_f32
column_butterfly2_negaterow1_avx_f32(row0, row1) ==
    Let([output0 \in {mm256_sub_ps(row0, row1)} |->
    Let([output1 \in {mm256_add_ps(row0, row1)} |->
        <<output0, output1>>])])

\* a rotation with the blend masks of the two directions exchanged
butterfly4_twiddle_avx_f32_masks_exchanged(elements, inverse) ==
    Let([elements_swapped \in {mm256_permute_ps(elements, 177)} |->
    Let([elements_negated \in {mm256_xor_ps_neg0(elements_swapped)} |->
        IF inverse
        THEN mm256_blend_ps(elements_swapped, elements_negated, 170)
        ELSE mm256_blend_ps(elements_swapped, elements_negated, 85)])])

\* macro butterfly4_twiddle_avx_f32
butterfly4_twiddle_avx_f32(elements, inverse) ==
    Let([elements_swapped \in {mm256_permute_ps(elements, 177)} |->   \* 0xB1
    Let([elements_negated \in {mm256_xor_ps_neg0(elements_swapped)} |->
        IF inverse
        THEN mm256_blend_ps(elements_swapped, elements_negated, 85)    \* 0x55
        ELSE mm256_blend_ps(elements_swapped, elements_negated, 170)])]) \* 0xAA

\* macro butterfly4_twiddle_alternating_avx_f32
butterfly4_twiddle_alternating_avx_f32(elements, inverse) ==
    Let([elements_swapped \in {mm256_permute_ps(elements, 180)} |->   \* 0xB4
    Let([elements_negated \in {mm256_xor_ps_neg0(elements_swapped)} |->
        IF inverse
        THEN mm256_blend_ps(elements_swapped, elements_negated, 68)    \* 0x44
        ELSE mm256_blend_ps(elements_swapped, elements_negated, 136)])]) \* 0x88

\* macro butterfly8_avx_f32
butterfly8_avx_f32(row0, row1, twiddles, inverse) ==
    Let([<<intermediate0, intermediate1_pretwiddle>> \in {column_butterfly2_avx_f32(row0, row1)} |->
    Let([intermediate1 \in {complex_multiply_f32(intermediate1_pretwiddle, twiddles)} |->
    Let([permuted0 \in {mm256_permute2f128_ps(intermediate0, intermediate1, 32)} |->
    Let([permuted1 \in {mm256_permute2f128_ps(intermediate0, intermediate1, 49)} |->
    Let([<<postbutterfly0, postbutterfly1_pretwiddle>> \in {column_butterfly2_avx_f32(permuted0, permuted1)} |->
    Let([postbutterfly1 \in {butterfly4_twiddle_alternating_avx_f32(postbutterfly1_pretwiddle, inverse)} |->
    Let([unpermuted0 \in {mm256_permute2f128_ps(postbutterfly0, postbutterfly1, 32)} |->
    Let([unpermuted1 \in {mm256_permute2f128_ps(postbutterfly0, postbutterfly1, 49)} |->
    Let([unpacked0 \in {mm256_unpacklo_ps(unpermuted0, unpermuted1)} |->
    Let([unpacked1 \in {mm256_unpackhi_ps(unpermuted0, unpermuted1)} |->
    Let([swapped0 \in {mm256_permute_ps(unpacked0, 216)} |->
    Let([swapped1 \in {mm256_permute_ps(unpacked1, 216)} |->
        column_butterfly2_avx_f32(swapped0, swapped1)])])])])])])])])])])])])

\* macro column_butterfly4_avx_f32
column_butterfly4_avx_f32(row0, row1, row2, row3, inverse) ==
    Let([<<mid0, mid2>> \in {column_butterfly2_avx_f32(row0, row2)} |->
    Let([<<mid1, mid3_pretwiddle>> \in {column_butterfly2_avx_f32(row1, row3)} |->
    Let([mid3 \in {butterfly4_twiddle_avx_f32(mid3_pretwiddle, inverse)} |->
    Let([<<output0, output1>> \in {column_butterfly2_avx_f32(mid0, mid1)} |->
    Let([<<output2, output3>> \in {column_butterfly2_avx_f32(mid2, mid3)} |->
        <<output0, output2, output1, output3>>])])])])])

\* macro column_butterfly8_avx_f32
column_butterfly8_avx_f32(row0, row1, row2, row3, row4, row5, row6, row7, twiddles, inverse) ==
    Let([<<mid0, mid2, mid4, mid6>> \in {column_butterfly4_avx_f32(row0, row2, row4, row6, inverse)} |->
    Let([<<mid1, mid3, mid5, mid7>> \in {column_butterfly4_avx_f32(row1, row3, row5, row7, inverse)} |->
    Let([mid3_twiddled \in {complex_multiply_f32(twiddles, mid3)} |->
    Let([mid5_twiddled \in {butterfly4_twiddle_avx_f32(mid5, inverse)} |->
    Let([mid7_twiddled_neg \in {complex_conj_multiply_f32(twiddles, mid7)} |->
    Let([<<final0, final1>> \in {column_butterfly2_avx_f32(mid0, mid1)} |->
    Let([<<final2, final3>> \in {column_butterfly2_avx_f32(mid2, mid3_twiddled)} |->
    Let([<<final4, final5>> \in {column_butterfly2_avx_f32(mid4, mid5_twiddled)} |->
    Let([<<final6, final7>> \in {column_butterfly2_negaterow1_avx_f32(mid6, mid7_twiddled_neg)} |->
        <<final0, final2, final4, final6,
          final1, final3, final5, final7>>])])])])])])])])])

\* the transpose with the two middle rows of its result exchanged
transpose_4x4_f32_swapped(col0, col1, col2, col3) ==
    Let([unpacked_0 \in {mm256_unpacklo_ps(col0, col1)} |->
    Let([unpacked_1 \in {mm256_unpackhi_ps(col0, col1)} |->
    Let([unpacked_2 \in {mm256_unpacklo_ps(col2, col3)} |->
    Let([unpacked_3 \in {mm256_unpackhi_ps(col2, col3)} |->
    Let([swapped_0 \in {mm256_permute_ps(unpacked_0, 216)} |->
    Let([swapped_1 \in {mm256_permute_ps(unpacked_1, 216)} |->
    Let([swapped_2 \in {mm256_permute_ps(unpacked_2, 216)} |->
    Let([swapped_3 \in {mm256_permute_ps(unpacked_3, 216)} |->
    Let([output_0 \in {mm256_permute2f128_ps(swapped_0, swapped_2, 32)} |->
    Let([output_1 \in {mm256_permute2f128_ps(swapped_1, swapped_3, 32)} |->
    Let([output_2 \in {mm256_permute2f128_ps(swapped_0, swapped_2, 49)} |->
    Let([output_3 \in {mm256_permute2f128_ps(swapped_1, swapped_3, 49)} |->
        <<output_0, output_2, output_1, output_3>>])])])])])])])])])])])])

\* a transpose without the permutes between the unpacks and the lane
\* exchanges
transpose_4x4_f32_unpermuted(col0, col1, col2, col3) ==
    Let([unpacked_0 \in {mm256_unpacklo_ps(col0, col1)} |->
    Let([unpacked_1 \in {mm256_unpackhi_ps(col0, col1)} |->
    Let([unpacked_2 \in {mm256_unpacklo_ps(col2, col3)} |->
    Let([unpacked_3 \in {mm256_unpackhi_ps(col2, col3)} |->
    Let([output_0 \in {mm256_permute2f128_ps(unpacked_0, unpacked_2, 32)} |->
    Let([output_1 \in {mm256_permute2f128_ps(unpacked_1, unpacked_3, 32)} |->
    Let([output_2 \in {mm256_permute2f128_ps(unpacked_0, unpacked_2, 49)} |->
    Let([output_3 \in {mm256_permute2f128_ps(unpacked_1, unpacked_3, 49)} |->
        <<output_0, output_1, output_2, output_3>>])])])])])])])])

\* macro transpose_4x4_f32
transpose_4x4_f32(col0, col1, col2, col3) ==
    Let([unpacked_0 \in {mm256_unpacklo_ps(col0, col1)} |->
    Let([unpacked_1 \in {mm256_unpackhi_ps(col0, col1)} |->
    Let([unpacked_2 \in {mm256_unpacklo_ps(col2, col3)} |->
    Let([unpacked_3 \in {mm256_unpackhi_ps(col2, col3)} |->
    Let([swapped_0 \in {mm256_permute_ps(unpacked_0, 216)} |->        \* 0xD8
    Let([swapped_1 \in {mm256_permute_ps(unpacked_1, 216)} |->
    Let([swapped_2 \in {mm256_permute_ps(unpacked_2, 216)} |->
    Let([swapped_3 \in {mm256_permute_ps(unpacked_3, 216)} |->
    Let([output_0 \in {mm256_permute2f128_ps(swapped_0, swapped_2, 32)} |->
    Let([output_1 \in {mm256_permute2f128_ps(swapped_1, swapped_3, 32)} |->
    Let([output_2 \in {mm256_permute2f128_ps(swapped_0, swapped_2, 49)} |->
    Let([output_3 \in {mm256_permute2f128_ps(swapped_1, swapped_3, 49)} |->
        <<output_0, output_1, output_2, output_3>>])])])])])])])])])])])])

\* macro butterfly16_avx_f32
butterfly16_avx_f32(row0, row1, row2, row3, twiddles, inverse) ==
    Let([<<mid0, mid1, mid2, mid3>> \in {column_butterfly4_avx_f32(row0, row1, row2, row3, inverse)} |->
    Let([mid1_twiddled \in {complex_multiply_f32(mid1, twiddles[1])} |->
    Let([mid2_twiddled \in {complex_multiply_f32(mid2, twiddles[2])} |->
    Let([mid3_twiddled \in {complex_multiply_f32(mid3, twiddles[3])} |->
    Let([<<transposed0, transposed1, transposed2, transposed3>> \in {transpose_4x4_f32(mid0, mid1_twiddled, mid2_twiddled, mid3_twiddled)} |->
        column_butterfly4_avx_f32(transposed0, transposed1, transposed2,
                                  transposed3, inverse)])])])])])

(***************************************************************************)
(* The fixed-size kernels                                                  *)
(***************************************************************************)
\* MixedRadixAvx4x2::new_with_avx
MixedRadixAvx4x2_new_with_avx(inverse) ==
    LET twiddle_array ==
            <<
              One, single_twiddle(1, 8, inverse), single_twiddle(2, 8, inverse), single_twiddle(3, 8, inverse)
            >>
    IN  [kind |-> "MixedRadixAvx4x2",
         twiddles |-> load_avx_f32(twiddle_array, 0),
         inverse |-> inverse]

\* MixedRadixAvx4x2::new
MixedRadixAvx4x2_new(has_avx, has_fma, inverse) ==
    IF has_avx /\ has_fma
    THEN CtorOk(MixedRadixAvx4x2_new_with_avx(inverse))
    ELSE CtorErr

\* MixedRadixAvx4x2::process_butterfly8_f32
MixedRadixAvx4x2_process_butterfly8_f32(h, buffer) ==
    Let([row0 \in {load_avx_f32(buffer, 0)} |->
    Let([row1 \in {load_avx_f32(buffer, 4)} |->
    Let([<<output0, output1>> \in {butterfly8_avx_f32(row0, row1, h.twiddles, h.inverse)} |->
    Let([stored0 \in {store_avx_f32(buffer, 0, output0)} |->
        store_avx_f32(stored0, 4, output1)])])])])

\* MixedRadixAvx4x4::new_with_avx
MixedRadixAvx4x4_new_with_avx(inverse) ==
    Let([twiddles \in {<<
              One, single_twiddle(1, 16, inverse), single_twiddle(2, 16, inverse), single_twiddle(3, 16, inverse),
              One, single_twiddle(2, 16, inverse), single_twiddle(4, 16, inverse), single_twiddle(6, 16, inverse),
              One, single_twiddle(3, 16, inverse), single_twiddle(6, 16, inverse), single_twiddle(9, 16, inverse)
            >>} |->
        [kind |-> "MixedRadixAvx4x4",
             twiddles |-> <<
                        load_avx_f32(twiddles, 0),
                        load_avx_f32(twiddles, 4),
                        load_avx_f32(twiddles, 8)
                          >>,
             inverse |-> inverse]])

\* MixedRadixAvx4x4::new
MixedRadixAvx4x4_new(has_avx, has_fma, inverse) ==
    IF has_avx /\ has_fma
    THEN CtorOk(MixedRadixAvx4x4_new_with_avx(inverse))
    ELSE CtorErr

\* MixedRadixAvx4x4::process_butterfly16_f32
MixedRadixAvx4x4_process_butterfly16_f32(h, buffer) ==
    Let([input0 \in {load_avx_f32(buffer, 0)} |->
    Let([input1 \in {load_avx_f32(buffer, 1 * 4)} |->
    Let([input2 \in {load_avx_f32(buffer, 2 * 4)} |->
    Let([input3 \in {load_avx_f32(buffer, 3 * 4)} |->
    Let([<<output0, output1, output2, output3>> \in {butterfly16_avx_f32(input0, input1, input2, input3,
                             h.twiddles, h.inverse)} |->
    Let([stored0 \in {store_avx_f32(buffer, 0, output0)} |->
    Let([stored1 \in {store_avx_f32(stored0, 1 * 4, output1)} |->
    Let([stored2 \in {store_avx_f32(stored1, 2 * 4, output2)} |->
        store_avx_f32(stored2, 3 * 4, output3)])])])])])])])])

\* the butterfly-8 twiddle vector laid out (im, re, im, re, im, re, im, re)
twiddles_butterfly8_new_swapped(inverse) ==
    Let([twiddle \in {single_twiddle(1, 8, inverse)} |->
        mm256_set_ps(twiddle[1], twiddle[2], twiddle[1], twiddle[2],
                     twiddle[1], twiddle[2], twiddle[1], twiddle[2])])

\* the butterfly-8 twiddle vector of MixedRadixAvx4x8 and MixedRadixAvx8x8
twiddles_butterfly8_new(inverse) ==
    Let([twiddle \in {single_twiddle(1, 8, inverse)} |->
        mm256_set_ps(twiddle[2], twiddle[1], twiddle[2], twiddle[1],
                     twiddle[2], twiddle[1], twiddle[2], twiddle[1])])

\* MixedRadixAvx4x8::new_with_avx
MixedRadixAvx4x8_new_with_avx(inverse) ==
    Let([twiddles \in {<<
              One, single_twiddle(1, 32, inverse), single_twiddle(2, 32, inverse), single_twiddle(3, 32, inverse),
              single_twiddle(4, 32, inverse), single_twiddle(5, 32, inverse), single_twiddle(6, 32, inverse), single_twiddle(7, 32, inverse),
              One, single_twiddle(2, 32, inverse), single_twiddle(4, 32, inverse), single_twiddle(6, 32, inverse),
              single_twiddle(8, 32, inverse), single_twiddle(10, 32, inverse), single_twiddle(12, 32, inverse), single_twiddle(14, 32, inverse),
              One, single_twiddle(3, 32, inverse), single_twiddle(6, 32, inverse), single_twiddle(9, 32, inverse),
              single_twiddle(12, 32, inverse), single_twiddle(15, 32, inverse), single_twiddle(18, 32, inverse), single_twiddle(21, 32, inverse)
            >>} |->
        [kind |-> "MixedRadixAvx4x8",
             twiddles |-> <<
                        load_avx_f32(twiddles, 0),
                        load_avx_f32(twiddles, 4),
                        load_avx_f32(twiddles, 8),
                        load_avx_f32(twiddles, 12),
                        load_avx_f32(twiddles, 16),
                        load_avx_f32(twiddles, 20)
                          >>,
             twiddles_butterfly8 |-> twiddles_butterfly8_new(inverse),
             inverse |-> inverse]])

\* MixedRadixAvx4x8::new
MixedRadixAvx4x8_new(has_avx, has_fma, inverse) ==
    IF has_avx /\ has_fma
    THEN CtorOk(MixedRadixAvx4x8_new_with_avx(inverse))
    ELSE CtorErr

\* MixedRadixAvx4x8::process_butterfly32_f32
MixedRadixAvx4x8_process_butterfly32_f32(h, buffer) ==
    Let([input0 \in {load_avx_f32(buffer, 0)} |->
    Let([input1 \in {load_avx_f32(buffer, 1 * 4)} |->
    Let([input2 \in {load_avx_f32(buffer, 2 * 4)} |->
    Let([input3 \in {load_avx_f32(buffer, 3 * 4)} |->
    Let([input4 \in {load_avx_f32(buffer, 4 * 4)} |->
    Let([input5 \in {load_avx_f32(buffer, 5 * 4)} |->
    Let([input6 \in {load_avx_f32(buffer, 6 * 4)} |->
    Let([input7 \in {load_avx_f32(buffer, 7 * 4)} |->
    Let([<<mid0, mid2, mid4, mid6>> \in {column_butterfly4_avx_f32(input0, input2, input4, input6, h.inverse)} |->
    Let([<<mid1, mid3, mid5, mid7>> \in {column_butterfly4_avx_f32(input1, input3, input5, input7, h.inverse)} |->
    Let([mid2_twiddled \in {complex_multiply_f32(mid2, h.twiddles[0 + 1])} |->
    Let([mid3_twiddled \in {complex_multiply_f32(mid3, h.twiddles[1 + 1])} |->
    Let([mid4_twiddled \in {complex_multiply_f32(mid4, h.twiddles[2 + 1])} |->
    Let([mid5_twiddled \in {complex_multiply_f32(mid5, h.twiddles[3 + 1])} |->
    Let([mid6_twiddled \in {complex_multiply_f32(mid6, h.twiddles[4 + 1])} |->
    Let([mid7_twiddled \in {complex_multiply_f32(mid7, h.twiddles[5 + 1])} |->
    Let([<<transposed0, transposed1, transposed2, transposed3>> \in {transpose_4x4_f32(mid0, mid2_twiddled, mid4_twiddled, mid6_twiddled)} |->
    Let([<<transposed4, transposed5, transposed6, transposed7>> \in {transpose_4x4_f32(mid1, mid3_twiddled, mid5_twiddled, mid7_twiddled)} |->
    Let([<<output0, output1, output2, output3,
                output4, output5, output6, output7>> \in {column_butterfly8_avx_f32(transposed0, transposed1, transposed2,
                                   transposed3, transposed4, transposed5,
                                   transposed6, transposed7,
                                   h.twiddles_butterfly8, h.inverse)} |->
    Let([stored0 \in {store_avx_f32(buffer, 0, output0)} |->
    Let([stored1 \in {store_avx_f32(stored0, 1 * 4, output1)} |->
    Let([stored2 \in {store_avx_f32(stored1, 2 * 4, output2)} |->
    Let([stored3 \in {store_avx_f32(stored2, 3 * 4, output3)} |->
    Let([stored4 \in {store_avx_f32(stored3, 4 * 4, output4)} |->
    Let([stored5 \in {store_avx_f32(stored4, 5 * 4, output5)} |->
    Let([stored6 \in {store_avx_f32(stored5, 6 * 4, output6)} |->
        store_avx_f32(stored6, 7 * 4, output7)])])])])])])])])])])])])])])])])])])])])])])])])])])

\* MixedRadixAvx8x8::new_with_avx
MixedRadixAvx8x8_new_with_avx(inverse) ==
    Let([twiddles \in {<<
              One, single_twiddle(1, 64, inverse), single_twiddle(2, 64, inverse), single_twiddle(3, 64, inverse),
              single_twiddle(4, 64, inverse), single_twiddle(5, 64, inverse), single_twiddle(6, 64, inverse), single_twiddle(7, 64, inverse),
              One, single_twiddle(2, 64, inverse), single_twiddle(4, 64, inverse), single_twiddle(6, 64, inverse),
              single_twiddle(8, 64, inverse), single_twiddle(10, 64, inverse), single_twiddle(12, 64, inverse), single_twiddle(14, 64, inverse),
              One, single_twiddle(3, 64, inverse), single_twiddle(6, 64, inverse), single_twiddle(9, 64, inverse),
              single_twiddle(12, 64, inverse), single_twiddle(15, 64, inverse), single_twiddle(18, 64, inverse), single_twiddle(21, 64, inverse),
              One, single_twiddle(4, 64, inverse), single_twiddle(8, 64, inverse), single_twiddle(12, 64, inverse),
              single_twiddle(16, 64, inverse), single_twiddle(20, 64, inverse), single_twiddle(24, 64, inverse), single_twiddle(28, 64, inverse),
              One, single_twiddle(5, 64, inverse), single_twiddle(10, 64, inverse), single_twiddle(15, 64, inverse),
              single_twiddle(20, 64, inverse), single_twiddle(25, 64, inverse), single_twiddle(30, 64, inverse), single_twiddle(35, 64, inverse),
              One, single_twiddle(6, 64, inverse), single_twiddle(12, 64, inverse), single_twiddle(18, 64, inverse),
              single_twiddle(24, 64, inverse), single_twiddle(30, 64, inverse), single_twiddle(36, 64, inverse), single_twiddle(42, 64, inverse),
              One, single_twiddle(7, 64, inverse), single_twiddle(14, 64, inverse), single_twiddle(21, 64, inverse),
              single_twiddle(28, 64, inverse), single_twiddle(35, 64, inverse), single_twiddle(42, 64, inverse), single_twiddle(49, 64, inverse)
            >>} |->
        [kind |-> "MixedRadixAvx8x8",
             twiddles |-> <<
                        load_avx_f32(twiddles, 0),
                        load_avx_f32(twiddles, 4),
                        load_avx_f32(twiddles, 8),
                        load_avx_f32(twiddles, 12),
                        load_avx_f32(twiddles, 16),
                        load_avx_f32(twiddles, 20),
                        load_avx_f32(twiddles, 24),
                        load_avx_f32(twiddles, 28),
                        load_avx_f32(twiddles, 32),
                        load_avx_f32(twiddles, 36),
                        load_avx_f32(twiddles, 40),
                        load_avx_f32(twiddles, 44),
                        load_avx_f32(twiddles, 48),
                        load_avx_f32(twiddles, 52)
                          >>,
             twiddles_butterfly8 |-> twiddles_butterfly8_new(inverse),
             inverse |-> inverse]])

\* MixedRadixAvx8x8::new
MixedRadixAvx8x8_new(has_avx, has_fma, inverse) ==
    IF has_avx /\ has_fma
    THEN CtorOk(MixedRadixAvx8x8_new_with_avx(inverse))
    ELSE CtorErr

\* MixedRadixAvx8x8::process_butterfly64_f32
MixedRadixAvx8x8_process_butterfly64_f32(h, buffer) ==
    Let([input0 \in {load_avx_f32(buffer, 0)} |->
    Let([input2 \in {load_avx_f32(buffer, 2 * 4)} |->
    Let([input4 \in {load_avx_f32(buffer, 4 * 4)} |->
    Let([input6 \in {load_avx_f32(buffer, 6 * 4)} |->
    Let([input8 \in {load_avx_f32(buffer, 8 * 4)} |->
    Let([input10 \in {load_avx_f32(buffer, 10 * 4)} |->
    Let([input12 \in {load_avx_f32(buffer, 12 * 4)} |->
    Let([input14 \in {load_avx_f32(buffer, 14 * 4)} |->
    Let([<<mid0, mid2, mid4, mid6,
                mid8, mid10, mid12, mid14>> \in {column_butterfly8_avx_f32(input0, input2, input4, input6,
                                   input8, input10, input12, input14,
                                   h.twiddles_butterfly8, h.inverse)} |->
    Let([mid2_twiddled \in {complex_multiply_f32(mid2, h.twiddles[0 + 1])} |->
    Let([mid4_twiddled \in {complex_multiply_f32(mid4, h.twiddles[2 + 1])} |->
    Let([mid6_twiddled \in {complex_multiply_f32(mid6, h.twiddles[4 + 1])} |->
    Let([mid8_twiddled \in {complex_multiply_f32(mid8, h.twiddles[6 + 1])} |->
    Let([mid10_twiddled \in {complex_multiply_f32(mid10, h.twiddles[8 + 1])} |->
    Let([mid12_twiddled \in {complex_multiply_f32(mid12, h.twiddles[10 + 1])} |->
    Let([mid14_twiddled \in {complex_multiply_f32(mid14, h.twiddles[12 + 1])} |->
    Let([<<transposed0, transposed2, transposed4, transposed6>> \in {transpose_4x4_f32(mid0, mid2_twiddled, mid4_twiddled, mid6_twiddled)} |->
    Let([<<transposed1, transposed3, transposed5, transposed7>> \in {transpose_4x4_f32(mid8_twiddled, mid10_twiddled,
                           mid12_twiddled, mid14_twiddled)} |->
    Let([input1 \in {load_avx_f32(buffer, 1 * 4)} |->
    Let([input3 \in {load_avx_f32(buffer, 3 * 4)} |->
    Let([input5 \in {load_avx_f32(buffer, 5 * 4)} |->
    Let([input7 \in {load_avx_f32(buffer, 7 * 4)} |->
    Let([input9 \in {load_avx_f32(buffer, 9 * 4)} |->
    Let([input11 \in {load_avx_f32(buffer, 11 * 4)} |->
    Let([input13 \in {load_avx_f32(buffer, 13 * 4)} |->
    Let([input15 \in {load_avx_f32(buffer, 15 * 4)} |->
    Let([<<mid1, mid3, mid5, mid7,
                mid9, mid11, mid13, mid15>> \in {column_butterfly8_avx_f32(input1, input3, input5, input7,
                                   input9, input11, input13, input15,
                                   h.twiddles_butterfly8, h.inverse)} |->
    Let([mid3_twiddled \in {complex_multiply_f32(mid3, h.twiddles[1 + 1])} |->
    Let([mid5_twiddled \in {complex_multiply_f32(mid5, h.twiddles[3 + 1])} |->
    Let([mid7_twiddled \in {complex_multiply_f32(mid7, h.twiddles[5 + 1])} |->
    Let([mid9_twiddled \in {complex_multiply_f32(mid9, h.twiddles[7 + 1])} |->
    Let([mid11_twiddled \in {complex_multiply_f32(mid11, h.twiddles[9 + 1])} |->
    Let([mid13_twiddled \in {complex_multiply_f32(mid13, h.twiddles[11 + 1])} |->
    Let([mid15_twiddled \in {complex_multiply_f32(mid15, h.twiddles[13 + 1])} |->
    Let([<<transposed8, transposed10, transposed12, transposed14>> \in {transpose_4x4_f32(mid1, mid3_twiddled, mid5_twiddled, mid7_twiddled)} |->
    Let([<<transposed9, transposed11, transposed13, transposed15>> \in {transpose_4x4_f32(mid9_twiddled, mid11_twiddled,
                           mid13_twiddled, mid15_twiddled)} |->
    Let([<<output0, output2, output4, output6,
                output8, output10, output12, output14>> \in {column_butterfly8_avx_f32(transposed0, transposed2, transposed4, transposed6,
                                   transposed8, transposed10, transposed12, transposed14,
                                   h.twiddles_butterfly8, h.inverse)} |->
    Let([stored0 \in {store_avx_f32(buffer, 0, output0)} |->
    Let([stored2 \in {store_avx_f32(stored0, 2 * 4, output2)} |->
    Let([stored4 \in {store_avx_f32(stored2, 4 * 4, output4)} |->
    Let([stored6 \in {store_avx_f32(stored4, 6 * 4, output6)} |->
    Let([stored8 \in {store_avx_f32(stored6, 8 * 4, output8)} |->
    Let([stored10 \in {store_avx_f32(stored8, 10 * 4, output10)} |->
    Let([stored12 \in {store_avx_f32(stored10, 12 * 4, output12)} |->
    Let([stored14 \in {store_avx_f32(stored12, 14 * 4, output14)} |->
    Let([<<output1, output3, output5, output7,
                output9, output11, output13, output15>> \in {column_butterfly8_avx_f32(transposed1, transposed3, transposed5, transposed7,
                                   transposed9, transposed11, transposed13, transposed15,
                                   h.twiddles_butterfly8, h.inverse)} |->
    Let([stored1 \in {store_avx_f32(stored14, 1 * 4, output1)} |->
    Let([stored3 \in {store_avx_f32(stored1, 3 * 4, output3)} |->
    Let([stored5 \in {store_avx_f32(stored3, 5 * 4, output5)} |->
    Let([stored7 \in {store_avx_f32(stored5, 7 * 4, output7)} |->
    Let([stored9 \in {store_avx_f32(stored7, 9 * 4, output9)} |->
    Let([stored11 \in {store_avx_f32(stored9, 11 * 4, output11)} |->
    Let([stored13 \in {store_avx_f32(stored11, 13 * 4, output13)} |->
        store_avx_f32(stored13, 15 * 4, output15)])])])])])])])])])])])])])])])])])])])])])])])])])])])])])])])])])])])])])])])])])])])])])])])])])])])])])

\* FftInline::process_inline of the four kernels: the buffer length check,
\* then the kernel; the scratch is not touched
Kernel_process_inline(h, buffer, scratch) ==
    IF ~verify_length_inline(buffer, HLen(h)) THEN Mem(buffer, scratch, "panic")
    ELSE Mem(CASE h.kind = "MixedRadixAvx4x2" ->
                      MixedRadixAvx4x2_process_butterfly8_f32(h, buffer)
               [] h.kind = "MixedRadixAvx4x4" ->
                      MixedRadixAvx4x4_process_butterfly16_f32(h, buffer)
               [] h.kind = "MixedRadixAvx4x8" ->
                      MixedRadixAvx4x8_process_butterfly32_f32(h, buffer)
               [] h.kind = "MixedRadixAvx8x8" ->
                      MixedRadixAvx8x8_process_butterfly64_f32(h, buffer),
             scratch, "ok")

IsKernel(h) ==
    h.kind \in {"MixedRadixAvx4x2", "MixedRadixAvx4x4",
                "MixedRadixAvx4x8", "MixedRadixAvx8x8"}

(***************************************************************************)
(* SplitRadixAvx                                                           *)
(***************************************************************************)
\* the constructor without the assertion on the length
SplitRadixAvx_new_with_avx_unasserted(fft_half, fft_quarter) ==
    IF HIsInverse(fft_half) # HIsInverse(fft_quarter) THEN CtorPanic
    ELSE IF HLen(fft_half) # HLen(fft_quarter) * 2 THEN CtorPanic
    ELSE CtorOk([kind |-> "SplitRadixAvx",
                 twiddles |-> [i \in 1..(HLen(fft_quarter) \div 4) |->
                     load_avx_f32(
                         <<single_twiddle((i - 1) * 4, HLen(fft_quarter) * 4,
                                          HIsInverse(fft_quarter)),
                           single_twiddle((i - 1) * 4 + 1, HLen(fft_quarter) * 4,
                                          HIsInverse(fft_quarter)),
                           single_twiddle((i - 1) * 4 + 2, HLen(fft_quarter) * 4,
                                          HIsInverse(fft_quarter)),
                           single_twiddle((i - 1) * 4 + 3, HLen(fft_quarter) * 4,
                                          HIsInverse(fft_quarter))>>,
                         0)],
                 fft_half |-> fft_half,
                 fft_quarter |-> fft_quarter,
                 len |-> HLen(fft_quarter) * 4,
                 inverse |-> HIsInverse(fft_quarter)])

\* the constructor with lane j of vector i holding the twiddle of index
\* 4i + j + 1
SplitRadixAvx_new_with_avx_shifted_twiddles(fft_half, fft_quarter) ==
    IF HIsInverse(fft_half) # HIsInverse(fft_quarter) THEN CtorPanic
    ELSE IF HLen(fft_half) # HLen(fft_quarter) * 2 THEN CtorPanic
    ELSE LET inverse == HIsInverse(fft_quarter)
             quarter_len == HLen(fft_quarter)
             len == quarter_len * 4
             sixteenth_len == quarter_len \div 4
         IN  IF len % 16 # 0 THEN CtorPanic
             ELSE CtorOk([kind |-> "SplitRadixAvx",
                          twiddles |-> [i \in 1..sixteenth_len |->
                              load_avx_f32(
                                  <<single_twiddle((i - 1) * 4 + 1, len, inverse),
                                    single_twiddle((i - 1) * 4 + 2, len, inverse),
                                    single_twiddle((i - 1) * 4 + 3, len, inverse),
                                    single_twiddle((i - 1) * 4 + 4, len, inverse)>>,
                                  0)],
                          fft_half |-> fft_half,
                          fft_quarter |-> fft_quarter,
                          len |-> len,
                          inverse |-> inverse])

\* SplitRadixAvx::new_with_avx
SplitRadixAvx_new_with_avx(fft_half, fft_quarter) ==
    IF HIsInverse(fft_half) # HIsInverse(fft_quarter) THEN CtorPanic
    ELSE IF HLen(fft_half) # HLen(fft_quarter) * 2 THEN CtorPanic
    ELSE LET inverse == HIsInverse(fft_quarter)
             quarter_len == HLen(fft_quarter)
             len == quarter_len * 4
             sixteenth_len == quarter_len \div 4
         IN  IF len % 16 # 0 THEN CtorPanic
             ELSE CtorOk([kind |-> "SplitRadixAvx",
                          twiddles |-> [i \in 1..sixteenth_len |->
                              load_avx_f32(
                                  <<single_twiddle((i - 1) * 4, len, inverse),
                                    single_twiddle((i - 1) * 4 + 1, len, inverse),
                                    single_twiddle((i - 1) * 4 + 2, len, inverse),
                                    single_twiddle((i - 1) * 4 + 3, len, inverse)>>,
                                  0)],
                          fft_half |-> fft_half,
                          fft_quarter |-> fft_quarter,
                          len |-> len,
                          inverse |-> inverse])

\* SplitRadixAvx::new
SplitRadixAvx_new(has_avx, has_fma, fft_half, fft_quarter) ==
    IF has_avx /\ has_fma
    THEN SplitRadixAvx_new_with_avx(fft_half, fft_quarter)
    ELSE CtorErr

\* the scratch length without the element the rotation of scratch_quarter3
\* needs
SplitRadixAvx_get_required_scratch_len_half(h) == h.len \div 2

\* SplitRadixAvx::get_required_scratch_len
SplitRadixAvx_get_required_scratch_len(h) == h.len \div 2 + 1

\* the iteration with quarter3 stored at offset 4i of scratch_quarter3, without
\* the shift by one element
SplitRadixAvx_decimate_step_unshifted(h, m, i) ==
    LET quarter_len == h.len \div 4
        len3 == Len(m.scratch) - quarter_len
    IN  IF ~(/\ InBounds4(Len(m.buffer), i * 16 + 12)
             /\ InBounds4(quarter_len, i * 4)
             /\ InBounds4(len3, i * 4)) THEN Ub(m)
        ELSE Let([chunk0 \in {load_avx_f32(m.buffer, i * 16)} |->
             Let([chunk1 \in {load_avx_f32(m.buffer, i * 16 + 4)} |->
             Let([<<even0, odd0>> \in {split_evens_f32(chunk0, chunk1)} |->
             Let([chunk2 \in {load_avx_f32(m.buffer, i * 16 + 8)} |->
             Let([chunk3 \in {load_avx_f32(m.buffer, i * 16 + 12)} |->
             Let([<<even1, odd1>> \in {split_evens_f32(chunk2, chunk3)} |->
             Let([<<quarter1, quarter3>> \in {split_evens_f32(odd0, odd1)} |->
             Let([b1 \in {store_avx_f32(m.buffer, i * 8, even0)} |->
             Let([b2 \in {store_avx_f32(b1, i * 8 + 4, even1)} |->
             Let([s1 \in {store_avx_f32(m.scratch, i * 4, quarter1)} |->
             Let([s2 \in {store_avx_f32(s1, quarter_len + i * 4, quarter3)} |->
                 Mem(b2, s2, "ok")])])])])])])])])])])])

\* a decimation step that stores the second odd quarter two elements up
SplitRadixAvx_decimate_step_shifted_twice(h, m, i) ==
    LET quarter_len == h.len \div 4
        len3 == Len(m.scratch) - quarter_len
    IN  IF ~(/\ InBounds4(Len(m.buffer), i * 16 + 12)
             /\ InBounds4(quarter_len, i * 4)
             /\ InBounds4(len3, i * 4 + 2)) THEN Ub(m)
        ELSE Let([chunk0 \in {load_avx_f32(m.buffer, i * 16)} |->
             Let([chunk1 \in {load_avx_f32(m.buffer, i * 16 + 4)} |->
             Let([<<even0, odd0>> \in {split_evens_f32(chunk0, chunk1)} |->
             Let([chunk2 \in {load_avx_f32(m.buffer, i * 16 + 8)} |->
             Let([chunk3 \in {load_avx_f32(m.buffer, i * 16 + 12)} |->
             Let([<<even1, odd1>> \in {split_evens_f32(chunk2, chunk3)} |->
             Let([<<quarter1, quarter3>> \in {split_evens_f32(odd0, odd1)} |->
             Let([b1 \in {store_avx_f32(m.buffer, i * 8, even0)} |->
             Let([b2 \in {store_avx_f32(b1, i * 8 + 4, even1)} |->
             Let([s1 \in {store_avx_f32(m.scratch, i * 4, quarter1)} |->
             Let([s2 \in {store_avx_f32(s1, quarter_len + i * 4 + 2, quarter3)} |->
                 Mem(b2, s2, "ok")])])])])])])])])])])])

\* perform_fft_f32, lines 503-521: one iteration of the decimation loop
SplitRadixAvx_decimate_step(h, m, i) ==
    LET quarter_len == h.len \div 4
        len3 == Len(m.scratch) - quarter_len
    IN  IF ~(/\ InBounds4(Len(m.buffer), i * 16 + 12)
             /\ InBounds4(quarter_len, i * 4)
             /\ InBounds4(len3, i * 4 + 1)) THEN Ub(m)
        ELSE Let([chunk0 \in {load_avx_f32(m.buffer, i * 16)} |->
             Let([chunk1 \in {load_avx_f32(m.buffer, i * 16 + 4)} |->
             Let([<<even0, odd0>> \in {split_evens_f32(chunk0, chunk1)} |->
             Let([chunk2 \in {load_avx_f32(m.buffer, i * 16 + 8)} |->
             Let([chunk3 \in {load_avx_f32(m.buffer, i * 16 + 12)} |->
             Let([<<even1, odd1>> \in {split_evens_f32(chunk2, chunk3)} |->
             Let([<<quarter1, quarter3>> \in {split_evens_f32(odd0, odd1)} |->
             Let([b1 \in {store_avx_f32(m.buffer, i * 8, even0)} |->
             Let([b2 \in {store_avx_f32(b1, i * 8 + 4, even1)} |->
             Let([s1 \in {store_avx_f32(m.scratch, i * 4, quarter1)} |->
             Let([s2 \in {store_avx_f32(s1, quarter_len + i * 4 + 1, quarter3)} |->
                 Mem(b2, s2, "ok")])])])])])])])])])])])

RECURSIVE SplitRadixAvx_decimate_loop(_, _, _, _)
SplitRadixAvx_decimate_loop(h, m, lo, hi) ==
    IF lo > hi \/ m.status # "ok" THEN m
    ELSE IF lo = hi THEN SplitRadixAvx_decimate_step(h, m, lo)
    ELSE LET mid == (lo + hi) \div 2
             left == SplitRadixAvx_decimate_loop(h, m, lo, mid)
         IN  IF left.status # "ok" THEN left
             ELSE SplitRadixAvx_decimate_loop(h, left, mid + 1, hi)

\* the decimation without the closing statements: scratch_quarter3 is left
\* rotated by one element
SplitRadixAvx_rotate_patch_skipped(h, m) == m

\* perform_fft_f32, lines 523-525: complete the rotation of scratch_quarter3
SplitRadixAvx_rotate_patch(h, m) ==
    LET quarter_len == h.len \div 4
        len3 == Len(m.scratch) - quarter_len
    IN  IF m.status # "ok" THEN m
        ELSE IF ~(quarter_len < len3) THEN Ub(m)
        ELSE Mem(m.buffer,
                 Put(m.scratch, quarter_len, At(m.scratch, quarter_len + quarter_len)),
                 "ok")

\* perform_fft_f32, line 503: for i in 0..sixteenth_len
SplitRadixAvx_decimate_range(h) == <<0, h.len \div 16>>

\* perform_fft_f32, lines 501-525: the decimation stage
SplitRadixAvx_decimate(h, m) ==
    IF h.len \div 4 > Len(m.scratch) THEN Panic(m)
    ELSE SplitRadixAvx_rotate_patch(h,
             SplitRadixAvx_decimate_loop(h, m, SplitRadixAvx_decimate_range(h)[1],
                 SplitRadixAvx_decimate_range(h)[2] - 1))

\* perform_fft_f32, lines 528 and 531
SplitRadixAvx_call_half(h, m) ==
    LET half_len == h.len \div 2
    IN  InnerCall(h.fft_half, Region("buffer", 0, half_len),
                  Region("buffer", half_len, Len(m.buffer)))

SplitRadixAvx_inner_half(h, m) == Invoke(SplitRadixAvx_call_half(h, m), m)

\* perform_fft_f32, lines 501 and 532
SplitRadixAvx_call_quarter1(h, m) ==
    LET half_len == h.len \div 2
        quarter_len == h.len \div 4
    IN  InnerCall(h.fft_quarter, Region("scratch", 0, quarter_len),
                  Region("buffer", half_len, Len(m.buffer)))

SplitRadixAvx_inner_quarter1(h, m) ==
    Invoke(SplitRadixAvx_call_quarter1(h, m), m)

\* scratch_quarter3 kept whole: every element of the scratch after
\* scratch_quarter1
SplitRadixAvx_call_quarter3_uncut(h, m) ==
    LET half_len == h.len \div 2
        quarter_len == h.len \div 4
    IN  InnerCall(h.fft_quarter,
                  Region("scratch", quarter_len, Len(m.scratch)),
                  Region("buffer", half_len, Len(m.buffer)))

\* perform_fft_f32, lines 525 and 533: scratch_quarter3 is cut to quarter_len
SplitRadixAvx_call_quarter3(h, m) ==
    LET half_len == h.len \div 2
        quarter_len == h.len \div 4
    IN  InnerCall(h.fft_quarter,
                  Region("scratch", quarter_len, quarter_len + quarter_len),
                  Region("buffer", half_len, Len(m.buffer)))

SplitRadixAvx_inner_quarter3(h, m) ==
    Invoke(SplitRadixAvx_call_quarter3(h, m), m)

\* the iteration with the conjugate taken of the third-quarter data, not of
\* the twiddle
SplitRadixAvx_recombine_step_conj_data(h, m, i) ==
    LET half_len == h.len \div 2
        quarter_len == h.len \div 4
        three_quarter_len == half_len + quarter_len
    IN  IF ~(/\ InBounds4(Len(m.buffer), i * 4 + three_quarter_len)
             /\ InBounds4(quarter_len, i * 4)
             /\ quarter_len * 2 <= Len(m.scratch)
             /\ i < Len(h.twiddles)) THEN Ub(m)
        ELSE Let([inner_even0_entry \in {load_avx_f32(m.buffer, i * 4)} |->
             Let([inner_even1_entry \in {load_avx_f32(m.buffer, quarter_len + i * 4)} |->
             Let([inner_quarter1_entry \in {load_avx_f32(m.scratch, i * 4)} |->
             Let([inner_quarter3_entry \in {load_avx_f32(m.scratch, quarter_len + i * 4)} |->
             Let([twiddle \in {At(h.twiddles, i)} |->
             Let([twiddled_quarter1 \in {complex_multiply_f32(twiddle, inner_quarter1_entry)} |->
             Let([twiddled_quarter3 \in {complex_conj_multiply_f32(inner_quarter3_entry, twiddle)} |->
             Let([<<quarter_sum, quarter_diff>> \in {column_butterfly2_avx_f32(twiddled_quarter1, twiddled_quarter3)} |->
             Let([<<output_i, output_i_half>> \in {column_butterfly2_avx_f32(inner_even0_entry, quarter_sum)} |->
             Let([quarter_diff_rotated \in {butterfly4_twiddle_avx_f32(quarter_diff, h.inverse)} |->
             Let([<<output_quarter1, output_quarter3>> \in {column_butterfly2_avx_f32(inner_even1_entry,
                                            quarter_diff_rotated)} |->
             Let([b1 \in {store_avx_f32(m.buffer, i * 4, output_i)} |->
             Let([b2 \in {store_avx_f32(b1, i * 4 + quarter_len, output_quarter1)} |->
             Let([b3 \in {store_avx_f32(b2, i * 4 + half_len, output_i_half)} |->
             Let([b4 \in {store_avx_f32(b3, i * 4 + three_quarter_len, output_quarter3)} |->
                 Mem(b4, m.scratch, "ok")])])])])])])])])])])])])])])])

\* perform_fft_f32, lines 537-538: the buffer offsets of the two 4-sample
\* loads of iteration i
SplitRadixAvx_recombine_reads(h, i) == <<i * 4, h.len \div 4 + i * 4>>

\* perform_fft_f32, lines 555-558: the buffer offsets of the four 4-sample
\* stores of iteration i
SplitRadixAvx_recombine_writes(h, i) ==
    <<i * 4, i * 4 + h.len \div 4, i * 4 + h.len \div 2,
      i * 4 + (h.len \div 2 + h.len \div 4)>>

\* perform_fft_f32, lines 536-559: one iteration of the recombination loop
SplitRadixAvx_recombine_step(h, m, i) ==
    LET half_len == h.len \div 2
        quarter_len == h.len \div 4
        three_quarter_len == half_len + quarter_len
    IN  Let([reads \in {SplitRadixAvx_recombine_reads(h, i)} |->
        Let([writes \in {SplitRadixAvx_recombine_writes(h, i)} |->
        IF ~(/\ \A k \in 1..2 : InBounds4(Len(m.buffer), reads[k])
             /\ \A k \in 1..4 : InBounds4(Len(m.buffer), writes[k])
             /\ InBounds4(quarter_len, i * 4)
             /\ quarter_len * 2 <= Len(m.scratch)
             /\ i < Len(h.twiddles)) THEN Ub(m)
        ELSE Let([inner_even0_entry \in {load_avx_f32(m.buffer, reads[1])} |->
             Let([inner_even1_entry \in {load_avx_f32(m.buffer, reads[2])} |->
             Let([inner_quarter1_entry \in {load_avx_f32(m.scratch, i * 4)} |->
             Let([inner_quarter3_entry \in {load_avx_f32(m.scratch, quarter_len + i * 4)} |->
             Let([twiddle \in {At(h.twiddles, i)} |->
             Let([twiddled_quarter1 \in {complex_multiply_f32(twiddle, inner_quarter1_entry)} |->
             Let([twiddled_quarter3 \in {complex_conj_multiply_f32(twiddle, inner_quarter3_entry)} |->
             Let([<<quarter_sum, quarter_diff>> \in {column_butterfly2_avx_f32(twiddled_quarter1, twiddled_quarter3)} |->
             Let([<<output_i, output_i_half>> \in {column_butterfly2_avx_f32(inner_even0_entry, quarter_sum)} |->
             Let([quarter_diff_rotated \in {butterfly4_twiddle_avx_f32(quarter_diff, h.inverse)} |->
             Let([<<output_quarter1, output_quarter3>> \in {column_butterfly2_avx_f32(inner_even1_entry,
                                            quarter_diff_rotated)} |->
             Let([b1 \in {store_avx_f32(m.buffer, writes[1], output_i)} |->
             Let([b2 \in {store_avx_f32(b1, writes[2], output_quarter1)} |->
             Let([b3 \in {store_avx_f32(b2, writes[3], output_i_half)} |->
             Let([b4 \in {store_avx_f32(b3, writes[4], output_quarter3)} |->
                 Mem(b4, m.scratch, "ok")])])])])])])])])])])])])])])])])])

RECURSIVE SplitRadixAvx_recombine_loop(_, _, _, _)
SplitRadixAvx_recombine_loop(h, m, lo, hi) ==
    IF lo > hi \/ m.status # "ok" THEN m
    ELSE IF lo = hi THEN SplitRadixAvx_recombine_step(h, m, lo)
    ELSE LET mid == (lo + hi) \div 2
             left == SplitRadixAvx_recombine_loop(h, m, lo, mid)
         IN  IF left.status # "ok" THEN left
             ELSE SplitRadixAvx_recombine_loop(h, left, mid + 1, hi)

\* perform_fft_f32, line 536: for i in 0..sixteenth_len
SplitRadixAvx_recombine_range(h) == <<0, h.len \div 16>>

\* perform_fft_f32, lines 535-559: the recombination stage
SplitRadixAvx_recombine(h, m) ==
    SplitRadixAvx_recombine_loop(h, m, SplitRadixAvx_recombine_range(h)[1],
                                 SplitRadixAvx_recombine_range(h)[2] - 1)

\* SplitRadixAvx::perform_fft_f32
SplitRadixAvx_perform_fft_f32(h, m) ==
    LET decimated == SplitRadixAvx_decimate(h, m)
        half == SplitRadixAvx_inner_half(h, decimated)
        quarter1 == SplitRadixAvx_inner_quarter1(h, half)
        quarter3 == SplitRadixAvx_inner_quarter3(h, quarter1)
    IN  SplitRadixAvx_recombine(h, quarter3)

\* the length checks of SplitRadixAvx::process_inline
SplitRadixAvx_checks(h, buffer, scratch) ==
    /\ verify_length_inline(buffer, HLen(h))
    /\ verify_length_minimum(scratch, SplitRadixAvx_get_required_scratch_len(h))

\* FftInline::process_inline of SplitRadixAvx<f32>
SplitRadixAvx_process_inline(h, buffer, scratch) ==
    IF ~SplitRadixAvx_checks(h, buffer, scratch) THEN Mem(buffer, scratch, "panic")
    ELSE SplitRadixAvx_perform_fft_f32(h, Mem(buffer, scratch, "ok"))

\* dynamic dispatch of FftInline::process_inline
process_inline(h, buffer, scratch) ==
    CASE h.kind = "DFT" -> DFT_process_inline(h, buffer, scratch)
      [] h.kind = "SplitRadix" -> SplitRadix_process_inline(h, buffer, scratch)
      [] h.kind = "SplitRadixAvx" ->
             SplitRadixAvx_process_inline(h, buffer, scratch)
      [] IsKernel(h) -> Kernel_process_inline(h, buffer, scratch)

(***************************************************************************)
(* CommonSimdData and the boilerplate_fft_commondata macro.  The struct    *)
(* that instantiates the macro is modelled as a 2 x n mixed radix          *)
(* transform over an inner Fft of length n.  A call of the Fft trait works *)
(* on three slices: input, output and scratch.                             *)
(***************************************************************************)
Mem3(input, output, scratch, status) ==
    [input |-> input, output |-> output, scratch |-> scratch, status |-> status]

\* the diagnostic of a failed length assertion: the operand its message
\* names, the size it says was expected, and the size it says was observed
Diag(operand, relation, expected, observed) ==
    [operand |-> operand, relation |-> relation,
     expected |-> expected, observed |-> observed]

NoDiag == [operand |-> "none"]

\* a failed assertion of a process method, with its diagnostic
Abort3(input, output, scratch, d) ==
    [input |-> input, output |-> output, scratch |-> scratch,
     status |-> "panic", diag |-> d]

Abort(buffer, scratch, d) ==
    [buffer |-> buffer, scratch |-> scratch, status |-> "panic", diag |-> d]

\* the diagnostic a call ended with, if it ended in one of these assertions
DiagOf(m) == IF "diag" \in DOMAIN m THEN m.diag ELSE NoDiag

RECURSIVE Fft_get_inplace_scratch_len(_)
RECURSIVE Fft_get_out_of_place_scratch_len(_)
RECURSIVE Fft_process_multi(_, _, _, _)
RECURSIVE Fft_process_inplace_multi(_, _, _)

\* the constructor of the struct: len = 2 * inner len, the twiddles of the
\* second row, and the least scratch lengths that are sufficient
CommonSimd_new_with_avx(inner_fft) ==
    LET inner_len == HLen(inner_fft)
        len == 2 * inner_len
        inverse == HIsInverse(inner_fft)
        inner_inplace == Fft_get_inplace_scratch_len(inner_fft)
        inner_outofplace == Fft_get_out_of_place_scratch_len(inner_fft)
    IN  [kind |-> "CommonSimd",
         common_data |->
             [inner_fft |-> inner_fft,
              twiddles |-> [c \in 1..inner_len |->
                               single_twiddle(c - 1, len, inverse)],
              len |-> len,
              inplace_scratch_len |-> len + inner_outofplace,
              outofplace_scratch_len |->
                  IF inner_inplace > len THEN inner_inplace ELSE 0,
              inverse |-> inverse]]

\* the constructor that asks for AVX only
CommonSimd_new_avx_only(has_avx, has_fma, inner_fft) ==
    IF has_avx
    THEN CtorOk(CommonSimd_new_with_avx(inner_fft))
    ELSE CtorErr

\* boilerplate_fft_commondata: new
CommonSimd_new(has_avx, has_fma, inner_fft) ==
    IF has_avx /\ has_fma
    THEN CtorOk(CommonSimd_new_with_avx(inner_fft))
    ELSE CtorErr

\* boilerplate_fft_commondata: get_inplace_scratch_len
CommonSimd_get_inplace_scratch_len(h) == h.common_data.inplace_scratch_len

\* boilerplate_fft_commondata: get_out_of_place_scratch_len
CommonSimd_get_out_of_place_scratch_len(h) ==
    h.common_data.outofplace_scratch_len

\* the column butterflies of the 2 x n transform, in place
perform_column_butterflies(h, buffer) ==
    LET n == HLen(h) \div 2
    IN  [j \in 1..Len(buffer) |->
            IF j <= n
            THEN CAdd(buffer[j], buffer[j + n])
            ELSE CMul(CSub(buffer[j - n], buffer[j]),
                      h.common_data.twiddles[j - n])]

\* the transpose of the 2 x n transform: n columns of 2 rows
transpose(h, input) ==
    LET n == HLen(h) \div 2
    IN  [j \in 1..Len(input) |-> input[((j - 1) % 2) * n + ((j - 1) \div 2) + 1]]

\* boilerplate_fft_commondata: perform_fft_inplace
perform_fft_inplace(h, buffer, scratch) ==
    Let([columns \in {perform_column_butterflies(h, buffer)} |->
        IF HLen(h) > Len(scratch) THEN Mem(columns, scratch, "panic")
        ELSE Let([r \in {Fft_process_multi(h.common_data.inner_fft,
                                   columns,
                                   Slice(scratch, 0, HLen(h)),
                                   Slice(scratch, HLen(h), Len(scratch)))} |->
                 IF r.status # "ok"
                 THEN Mem(r.input, r.output \o r.scratch, r.status)
                 ELSE Mem(transpose(h, r.output), r.output \o r.scratch, "ok")])])

\* perform_fft_out_of_place with the inner transform handed the caller's
\* scratch whatever its length
perform_fft_out_of_place_rows_scratch_only(h, input, output, scratch) ==
    Let([columns \in {perform_column_butterflies(h, input)} |->
    Let([r \in {Fft_process_inplace_multi(h.common_data.inner_fft, columns,
                                  scratch)} |->
        Mem3(r.buffer, output, r.scratch, r.status)])])

\* perform_fft_out_of_place, lines 52-59: the column butterflies and the row
\* transforms; the inner transform gets the scratch, or the output when the
\* scratch is empty
perform_fft_out_of_place_rows(h, input, output, scratch) ==
    Let([columns \in {perform_column_butterflies(h, input)} |->
    Let([use_scratch \in {Len(scratch) > 0} |->
    Let([r \in {Fft_process_inplace_multi(h.common_data.inner_fft, columns,
                                  IF use_scratch THEN scratch ELSE output)} |->
    Let([output1 \in {IF use_scratch THEN output ELSE r.scratch} |->
    Let([scratch1 \in {IF use_scratch THEN r.scratch ELSE scratch} |->
        Mem3(r.buffer, output1, scratch1, r.status)])])])])])

\* boilerplate_fft_commondata: perform_fft_out_of_place
perform_fft_out_of_place(h, input, output, scratch) ==
    Let([r \in {perform_fft_out_of_place_rows(h, input, output, scratch)} |->
        IF r.status # "ok" THEN r
        ELSE Mem3(r.input, transpose(h, r.input), r.scratch, "ok")])

\* process_with_scratch without the assertion on the output length
process_with_scratch_unchecked_output(h, input, output, scratch) ==
    LET required_scratch == CommonSimd_get_out_of_place_scratch_len(h)
    IN  IF Len(input) # HLen(h)
        THEN Abort3(input, output, scratch,
                    Diag("Input", "exactly", HLen(h), Len(input)))
        ELSE IF ~(Len(scratch) >= required_scratch)
        THEN Abort3(input, output, scratch,
                    Diag("Scratch", "or greater", required_scratch, Len(scratch)))
        ELSE Let([r \in {perform_fft_out_of_place(h, input, output,
                                          Slice(scratch, 0, required_scratch))} |->
                 Mem3(r.input, r.output,
                      r.scratch \o Slice(scratch, required_scratch, Len(scratch)),
                      r.status)])

\* boilerplate_fft_commondata: process_with_scratch
process_with_scratch(h, input, output, scratch) ==
    LET required_scratch == CommonSimd_get_out_of_place_scratch_len(h)
    IN  IF Len(input) # HLen(h)
        THEN Abort3(input, output, scratch,
                    Diag("Input", "exactly", HLen(h), Len(input)))
        ELSE IF Len(output) # HLen(h)
        THEN Abort3(input, output, scratch,
                    Diag("Output", "exactly", HLen(h), Len(output)))
        ELSE IF ~(Len(scratch) >= required_scratch)
        THEN Abort3(input, output, scratch,
                    Diag("Scratch", "or greater", required_scratch, Len(scratch)))
        ELSE Let([r \in {perform_fft_out_of_place(h, input, output,
                                          Slice(scratch, 0, required_scratch))} |->
                 Mem3(r.input, r.output,
                      r.scratch \o Slice(scratch, required_scratch, Len(scratch)),
                      r.status)])

\* the loop of process_multi with every input chunk paired with the first
\* output chunk
RECURSIVE process_multi_loop_first_output(_, _, _)
process_multi_loop_first_output(h, m, i) ==
    LET len == HLen(h)
    IN  IF m.status # "ok" \/ (i + 1) * len > Len(m.input) THEN m
        ELSE Let([r \in {perform_fft_out_of_place(h,
                          Slice(m.input, i * len, (i + 1) * len),
                          Slice(m.output, 0, len),
                          m.scratch)} |->
                 process_multi_loop_first_output(h,
                     Mem3(Slice(m.input, 0, i * len) \o r.input
                              \o Slice(m.input, (i + 1) * len, Len(m.input)),
                          r.output \o Slice(m.output, len, Len(m.output)),
                          r.scratch, r.status),
                     i + 1)])

\* process_multi, lines 87-89: the chunks from chunk i on
RECURSIVE process_multi_loop(_, _, _)
process_multi_loop(h, m, i) ==
    LET len == HLen(h)
    IN  IF m.status # "ok" \/ (i + 1) * len > Len(m.input) THEN m
        ELSE Let([r \in {perform_fft_out_of_place(h,
                          Slice(m.input, i * len, (i + 1) * len),
                          Slice(m.output, i * len, (i + 1) * len),
                          m.scratch)} |->
                 process_multi_loop(h,
                     Mem3(Slice(m.input, 0, i * len) \o r.input
                              \o Slice(m.input, (i + 1) * len, Len(m.input)),
                          Slice(m.output, 0, i * len) \o r.output
                              \o Slice(m.output, (i + 1) * len, Len(m.output)),
                          r.scratch, r.status),
                     i + 1)])

\* boilerplate_fft_commondata: process_multi
process_multi(h, input, output, scratch) ==
    LET required_scratch == CommonSimd_get_out_of_place_scratch_len(h)
    IN  IF Len(input) % HLen(h) # 0
        THEN Abort3(input, output, scratch,
                    Diag("Output", "multiple of", HLen(h), Len(input)))
        ELSE IF Len(input) # Len(output)
        THEN Abort3(input, output, scratch,
                    Diag("Output", "equal to input", Len(input), Len(output)))
        ELSE IF ~(Len(scratch) >= required_scratch)
        THEN Abort3(input, output, scratch,
                    Diag("Scratch", "or greater", required_scratch, Len(scratch)))
        ELSE Let([r \in {process_multi_loop(h,
                          Mem3(input, output,
                               Slice(scratch, 0, required_scratch), "ok"), 0)} |->
                 Mem3(r.input, r.output,
                      r.scratch \o Slice(scratch, required_scratch, Len(scratch)),
                      r.status)])

\* process_inplace_with_scratch with the column butterflies run before the
\* scratch length is asserted
process_inplace_with_scratch_late_check(h, buffer, scratch) ==
    LET required_scratch == CommonSimd_get_inplace_scratch_len(h)
    IN  IF Len(buffer) # HLen(h)
        THEN Abort(buffer, scratch,
                   Diag("Buffer", "exactly", HLen(h), Len(buffer)))
        ELSE IF ~(Len(scratch) >= required_scratch)
        THEN Abort(perform_column_butterflies(h, buffer), scratch,
                   Diag("Scratch", "or greater", required_scratch, Len(scratch)))
        ELSE Let([r \in {perform_fft_inplace(h, buffer,
                                     Slice(scratch, 0, required_scratch))} |->
                 Mem(r.buffer,
                     r.scratch \o Slice(scratch, required_scratch, Len(scratch)),
                     r.status)])

\* boilerplate_fft_commondata: process_inplace_with_scratch
process_inplace_with_scratch(h, buffer, scratch) ==
    LET required_scratch == CommonSimd_get_inplace_scratch_len(h)
    IN  IF Len(buffer) # HLen(h)
        THEN Abort(buffer, scratch,
                   Diag("Buffer", "exactly", HLen(h), Len(buffer)))
        ELSE IF ~(Len(scratch) >= required_scratch)
        THEN Abort(buffer, scratch,
                   Diag("Scratch", "or greater", required_scratch, Len(scratch)))
        ELSE Let([r \in {perform_fft_inplace(h, buffer,
                                     Slice(scratch, 0, required_scratch))} |->
                 Mem(r.buffer,
                     r.scratch \o Slice(scratch, required_scratch, Len(scratch)),
                     r.status)])

\* process_inplace_multi, lines 109-111: the chunks from chunk i on
RECURSIVE process_inplace_multi_loop(_, _, _)
process_inplace_multi_loop(h, m, i) ==
    LET len == HLen(h)
    IN  IF m.status # "ok" \/ (i + 1) * len > Len(m.buffer) THEN m
        ELSE Let([r \in {perform_fft_inplace(h,
                          Slice(m.buffer, i * len, (i + 1) * len), m.scratch)} |->
                 process_inplace_multi_loop(h,
                     Mem(Slice(m.buffer, 0, i * len) \o r.buffer
                             \o Slice(m.buffer, (i + 1) * len, Len(m.buffer)),
                         r.scratch, r.status),
                     i + 1)])

\* process_inplace_multi without the assertion on the buffer length
process_inplace_multi_unchecked(h, buffer, scratch) ==
    LET required_scratch == CommonSimd_get_inplace_scratch_len(h)
    IN  IF ~(Len(scratch) >= required_scratch)
        THEN Abort(buffer, scratch,
                   Diag("Scratch", "or greater", required_scratch, Len(scratch)))
        ELSE Let([r \in {process_inplace_multi_loop(h,
                          Mem(buffer, Slice(scratch, 0, required_scratch), "ok"),
                          0)} |->
                 Mem(r.buffer,
                     r.scratch \o Slice(scratch, required_scratch, Len(scratch)),
                     r.status)])

\* boilerplate_fft_commondata: process_inplace_multi
process_inplace_multi(h, buffer, scratch) ==
    LET required_scratch == CommonSimd_get_inplace_scratch_len(h)
    IN  IF Len(buffer) % HLen(h) # 0
        THEN Abort(buffer, scratch,
                   Diag("Buffer", "multiple of", HLen(h), Len(buffer)))
        ELSE IF ~(Len(scratch) >= required_scratch)
        THEN Abort(buffer, scratch,
                   Diag("Scratch", "or greater", required_scratch, Len(scratch)))
        ELSE Let([r \in {process_inplace_multi_loop(h,
                          Mem(buffer, Slice(scratch, 0, required_scratch), "ok"),
                          0)} |->
                 Mem(r.buffer,
                     r.scratch \o Slice(scratch, required_scratch, Len(scratch)),
                     r.status)])

\* Fft::process_multi of DFT: each chunk of the output is the DFT of the
\* matching chunk of the input; no scratch is needed
RECURSIVE DFT_process_multi_loop(_, _, _, _)
DFT_process_multi_loop(h, input, output, i) ==
    IF (i + 1) * h.len > Len(input) THEN output
    ELSE DFT_process_multi_loop(h, input,
             Slice(output, 0, i * h.len)
                 \o Dft(Slice(input, i * h.len, (i + 1) * h.len), h.inverse)
                 \o Slice(output, (i + 1) * h.len, Len(output)),
             i + 1)

DFT_process_multi(h, input, output, scratch) ==
    IF Len(input) % h.len # 0 THEN Mem3(input, output, scratch, "panic")
    ELSE IF Len(input) # Len(output) THEN Mem3(input, output, scratch, "panic")
    ELSE Mem3(input, DFT_process_multi_loop(h, input, output, 0), scratch, "ok")

\* Fft::process_inplace_multi of DFT: each chunk is transformed into the
\* scratch and copied back
DFT_process_inplace_multi(h, buffer, scratch) ==
    IF Len(buffer) % h.len # 0 THEN Mem(buffer, scratch, "panic")
    ELSE IF ~(Len(scratch) >= Fft_get_inplace_scratch_len(h))
    THEN Mem(buffer, scratch, "panic")
    ELSE Let([out \in {DFT_process_multi_loop(h, buffer, buffer, 0)} |->
             Mem(out,
                 IF Len(buffer) = 0 THEN scratch
                 ELSE Slice(out, Len(out) - h.len, Len(out))
                          \o Slice(scratch, h.len, Len(scratch)),
                 "ok")])

\* dynamic dispatch of the Fft trait
Fft_get_inplace_scratch_len(h) ==
    CASE h.kind = "DFT" -> h.len
      [] h.kind = "Bluesteins" -> h.inplace_scratch_len
      [] OTHER -> CommonSimd_get_inplace_scratch_len(h)

Fft_get_out_of_place_scratch_len(h) ==
    CASE h.kind = "DFT" -> 0
      [] h.kind = "Bluesteins" -> 0
      [] OTHER -> CommonSimd_get_out_of_place_scratch_len(h)

Fft_process_multi(h, input, output, scratch) ==
    IF h.kind \in {"DFT", "Bluesteins"}
    THEN DFT_process_multi(h, input, output, scratch)
    ELSE process_multi(h, input, output, scratch)

Fft_process_inplace_multi(h, buffer, scratch) ==
    IF h.kind \in {"DFT", "Bluesteins"}
    THEN DFT_process_inplace_multi(h, buffer, scratch)
    ELSE process_inplace_multi(h, buffer, scratch)

\* an inner Fft that asks for more in-place scratch than its caller's output
\* can offer (as BluesteinsAvx does); its result is the DFT
Bluesteins_new(len, inverse) ==
    [kind |-> "Bluesteins", len |-> len, inverse |-> inverse,
     inplace_scratch_len |-> 3 * len]

(***************************************************************************)
(* The caller: the machine's CPU features, the inner transforms handed to  *)
(* the constructors, and the slices handed to the calls.                   *)
(***************************************************************************)
Impulse(n, j) == [k \in 1..n |-> IF k = j + 1 THEN One ELSE Zero]
Ones(n) == [k \in 1..n |-> One]
Ramp(n) == [k \in 1..n |-> <<(k * k + 3) % P, (7 * k + 1) % P>>]
\* what a slice holds before the call writes it
Junk(n) == [k \in 1..n |-> <<(5 * k + 11) % P, (k * k * k + 2) % P>>]

Kernel4x2(d) == MixedRadixAvx4x2_new(TRUE, TRUE, d).handle
Kernel4x4(d) == MixedRadixAvx4x4_new(TRUE, TRUE, d).handle
Kernel4x8(d) == MixedRadixAvx4x8_new(TRUE, TRUE, d).handle
Kernel8x8(d) == MixedRadixAvx8x8_new(TRUE, TRUE, d).handle

\* the quarter lengths of the split-radix handles built over DFT; the
\* constructors accept an fft_quarter of length 0
QuarterLens == {0, 1, 2, 3, 4, 8, 16, 32, 64}

\* consistent pairs <<fft_half, fft_quarter>>
GoodPairs ==
    {<<DFT_new(2 * q, d), DFT_new(q, d)>> : q \in QuarterLens, d \in BOOLEAN}
    \cup {<<Kernel4x4(d), Kernel4x2(d)>> : d \in BOOLEAN}
    \cup {<<Kernel4x8(d), Kernel4x4(d)>> : d \in BOOLEAN}
    \cup {<<Kernel8x8(d), Kernel4x8(d)>> : d \in BOOLEAN}
    \cup {<<SplitRadix_new(DFT_new(8, d), DFT_new(4, d)).handle, Kernel4x2(d)>> :
             d \in BOOLEAN}
    \cup {<<SplitRadixAvx_new(TRUE, TRUE, DFT_new(8, d), DFT_new(4, d)).handle,
            SplitRadix_new(DFT_new(4, d), DFT_new(2, d)).handle>> : d \in BOOLEAN}
    \cup {<<SplitRadixAvx_new(TRUE, TRUE, Kernel8x8(d), Kernel4x8(d)).handle,
            Kernel8x8(d)>> : d \in BOOLEAN}
    \cup {<<SplitRadix_new(DFT_new(0, d), DFT_new(0, d)).handle, DFT_new(0, d)>> :
             d \in BOOLEAN}

\* pairs that differ in direction or whose lengths are not 2 : 1
BadPairs ==
    {<<DFT_new(2 * q, d), DFT_new(q, ~d)>> : q \in {2, 4}, d \in BOOLEAN}
    \cup {<<DFT_new(hl, d), DFT_new(4, d)>> : hl \in {4, 7, 9, 16}, d \in BOOLEAN}
    \cup {<<Kernel4x4(d), Kernel4x2(~d)>> : d \in BOOLEAN}
    \cup {<<Kernel4x8(d), Kernel4x2(d)>> : d \in BOOLEAN}

InnerPairs == GoodPairs \cup BadPairs

\* the pairs of the handles that are called more than once: a long
\* transform is built over kernels and split-radix transforms
MaxChainDft == 16
ChainPairs ==
    {pair \in InnerPairs : pair[2].kind = "DFT" => pair[2].len <= MaxChainDft}

\* the inner transforms handed to the CommonSimdData constructor
InnerFfts ==
    {DFT_new(n, d) : n \in {2, 4, 8}, d \in BOOLEAN}
    \cup {Bluesteins_new(n, d) : n \in {3, 4}, d \in BOOLEAN}
    \cup {CommonSimd_new_with_avx(DFT_new(4, d)) : d \in BOOLEAN}
    \cup {CommonSimd_new_with_avx(Bluesteins_new(2, d)) : d \in BOOLEAN}

\* the buffers a call is tried on: impulses, the constant one and a ramp
ImpulseAt(n) == {j \in {0, 1, 2, 3, 5, n - 1} : j < n}
Inputs(n) == {Impulse(n, j) : j \in ImpulseAt(n)} \cup {Ones(n), Ramp(n)}
\* the buffers of the first call when more calls follow
ChainInputs(n) == {Impulse(n, 1 % n), Ones(n), Ramp(n)}

(***************************************************************************)
(* The state: the handle under test and how it was constructed, the call   *)
(* in flight and the caller's slices.                                      *)
(***************************************************************************)
VARIABLES
    handle,     \* the transform handle, NoHandle before construction
    ctor,       \* the constructor call that was made and how it ended
    pc,         \* where the caller stands
    op,         \* the process method in flight
    buffer,     \* the buffer of an in-place call, the input of an out-of-place call
    output,     \* the output of an out-of-place call
    scratch,    \* the scratch
    orig,       \* the three slices as they were when the call was made
    hist,       \* the calls that returned, in order
    diag,       \* the diagnostic of the assertion that ended the call
    calls,      \* the inner transforms the call in flight invoked, in order
    heap,       \* the memory the threads that share the handle work on
    threads     \* per thread: where its call stands and the regions of its slices

vars ==
    <<handle, ctor, pc, op, buffer, output, scratch, orig, hist, diag, calls,
      heap, threads>>

mem == <<buffer, output, scratch>>

Slices(b, o, s) == [buffer |-> b, output |-> o, scratch |-> s]

Ctor(name, has_avx, has_fma, inners, inverse, status) ==
    [op |-> name, has_avx |-> has_avx, has_fma |-> has_fma,
     inners |-> inners, inverse |-> inverse, status |-> status]

Init ==
    /\ handle = NoHandle
    /\ ctor = Ctor("none", FALSE, FALSE, <<>>, FALSE, "none")
    /\ pc = "start"
    /\ op = "none"
    /\ buffer = <<>>
    /\ output = <<>>
    /\ scratch = <<>>
    /\ orig = Slices(<<>>, <<>>, <<>>)
    /\ hist = <<>>
    /\ diag = NoDiag
    /\ calls = <<>>
    /\ heap = <<>>
    /\ threads = <<>>

\* a constructor returned r: Ok(handle), Err(()) or it panicked
Constructed(name, has_avx, has_fma, inners, inverse, r) ==
    /\ handle' = r.handle
    /\ ctor' = Ctor(name, has_avx, has_fma, inners, inverse, r.status)
    /\ pc' = CASE r.status = "ok" -> "idle"
               [] r.status = "err" -> "ctor_err"
               [] r.status = "panic" -> "ctor_panic"
    /\ UNCHANGED <<op, buffer, output, scratch, orig, hist, diag, calls, heap,
                   threads>>

New_SplitRadix(pairs) ==
    /\ pc = "start"
    /\ \E pair \in pairs :
         Constructed("SplitRadix::new", FALSE, FALSE, pair, FALSE,
                     SplitRadix_new(pair[1], pair[2]))

New_SplitRadixAvx(pairs, features) ==
    /\ pc = "start"
    /\ \E pair \in pairs : \E f \in features :
         Constructed("SplitRadixAvx::new", f[1], f[2], pair, FALSE,
                     SplitRadixAvx_new(f[1], f[2], pair[1], pair[2]))

New_MixedRadixAvx4x2(features) ==
    /\ pc = "start"
    /\ \E inverse \in BOOLEAN : \E f \in features :
         Constructed("MixedRadixAvx4x2::new", f[1], f[2], <<>>, inverse,
                     MixedRadixAvx4x2_new(f[1], f[2], inverse))

New_MixedRadixAvx4x4(features) ==
    /\ pc = "start"
    /\ \E inverse \in BOOLEAN : \E f \in features :
         Constructed("MixedRadixAvx4x4::new", f[1], f[2], <<>>, inverse,
                     MixedRadixAvx4x4_new(f[1], f[2], inverse))

New_MixedRadixAvx4x8(features) ==
    /\ pc = "start"
    /\ \E inverse \in BOOLEAN : \E f \in features :
         Constructed("MixedRadixAvx4x8::new", f[1], f[2], <<>>, inverse,
                     MixedRadixAvx4x8_new(f[1], f[2], inverse))

New_MixedRadixAvx8x8(features) ==
    /\ pc = "start"
    /\ \E inverse \in BOOLEAN : \E f \in features :
         Constructed("MixedRadixAvx8x8::new", f[1], f[2], <<>>, inverse,
                     MixedRadixAvx8x8_new(f[1], f[2], inverse))

New_CommonSimd(inners, features) ==
    /\ pc = "start"
    /\ \E inner \in inners : \E f \in features :
         Constructed("CommonSimd::new", f[1], f[2], <<inner>>, FALSE,
                     CommonSimd_new(f[1], f[2], inner))

\* FftInline::get_required_scratch_len
get_required_scratch_len(h) ==
    CASE h.kind = "SplitRadix" -> SplitRadix_get_required_scratch_len(h)
      [] h.kind = "SplitRadixAvx" -> SplitRadixAvx_get_required_scratch_len(h)
      [] h.kind = "DFT" -> DFT_get_required_scratch_len(h)
      [] IsKernel(h) -> 0

IsFftInline(h) == h.kind \in {"SplitRadix", "SplitRadixAvx"} \/ IsKernel(h)

\* the slices of a call: other lengths than n, and lengths short of n
OtherLens(n) == {m \in {0, n - 1, n + 1, 2 * n} : m >= 0 /\ m # n}
ShortLens(n) == {m \in {n - 1, 0} : m >= 0 /\ m < n}

IsCommonSimd(h) == h.kind = "CommonSimd"

OutOfPlace(name) == name \in {"process_with_scratch", "process_multi"}
Multi(name) == name \in {"process_multi", "process_inplace_multi"}

\* the scratch length the handle advertises for a method
AdvertisedScratch(h, name) ==
    CASE name = "process_inline" -> get_required_scratch_len(h)
      [] OutOfPlace(name) -> Fft_get_out_of_place_scratch_len(h)
      [] OTHER -> Fft_get_inplace_scratch_len(h)

\* the slices of a call on x with a fresh output and the advertised scratch
FreshArgs(h, name, x) ==
    Slices(x, IF OutOfPlace(name) THEN Junk(Len(x)) ELSE <<>>,
           Junk(AdvertisedScratch(h, name)))

FftArgs(h, name, chained) ==
    LET n == HLen(h)
        req == AdvertisedScratch(h, name)
        out(m) == IF OutOfPlace(name) THEN Junk(m) ELSE <<>>
    IN  {FreshArgs(h, name, x) : x \in IF chained THEN ChainInputs(n) ELSE Inputs(n)}
        \cup {Slices(Ramp(n), out(n), Junk(req + 2))}
        \cup {Slices(Ramp(m), out(m), Junk(req)) : m \in OtherLens(n)}
        \cup {Slices(Ramp(n), Junk(m), Junk(req)) :
                 m \in IF OutOfPlace(name) THEN OtherLens(n) ELSE {}}
        \cup {Slices(Ramp(n), out(n), Junk(m)) : m \in ShortLens(req)}

\* the caller passes the slices a to method name
Called(name, a) ==
    /\ op' = name
    /\ buffer' = a.buffer
    /\ output' = a.output
    /\ scratch' = a.scratch
    /\ orig' = a
    /\ pc' = "called"
    /\ diag' = NoDiag
    /\ calls' = <<>>
    /\ UNCHANGED <<handle, ctor, hist, heap, threads>>

Call_process_inline(chained) ==
    /\ pc = "idle"
    /\ hist = <<>>
    /\ IsFftInline(handle)
    /\ \E a \in FftArgs(handle, "process_inline", chained) :
          Called("process_inline", a)

\* a step of the call left the slices b, o, s and ended with status; the
\* call returns when next is "done"
LandLog(b, o, s, status, d, next, log) ==
    /\ diag' = d
    /\ calls' = log
    /\ buffer' = b
    /\ output' = o
    /\ scratch' = s
    /\ pc' = CASE status = "ok" -> next
               [] status = "panic" -> "panicked"
               [] status = "ub" -> "ub"
    /\ hist' = IF status = "ok" /\ next = "done"
               THEN Append(hist, [handle |-> handle, op |-> op, orig |-> orig,
                                  buffer |-> b, output |-> o, scratch |-> s])
               ELSE hist
    /\ UNCHANGED <<handle, ctor, op, orig, heap, threads>>

LandDiag(b, o, s, status, d, next) == LandLog(b, o, s, status, d, next, calls)

Land(b, o, s, status, next) == LandDiag(b, o, s, status, NoDiag, next)

IsSplitRadix(h) == h.kind \in {"SplitRadix", "SplitRadixAvx"}

\* process_inline of SplitRadix and SplitRadixAvx: the length checks
Check ==
    /\ pc = "called"
    /\ op = "process_inline"
    /\ IsSplitRadix(handle)
    /\ Land(buffer, output, scratch,
            IF handle.kind = "SplitRadix"
            THEN (IF SplitRadix_checks(handle, buffer, scratch)
                  THEN "ok" ELSE "panic")
            ELSE (IF SplitRadixAvx_checks(handle, buffer, scratch)
                  THEN "ok" ELSE "panic"),
            "checked")

\* a stage of perform_fft / perform_fft_f32 has run and left m
Stage(m, to) == Land(m.buffer, output, m.scratch, m.status, to)

\* the stage was the invocation c of an inner transform
StageCall(m, c, to) ==
    LandLog(m.buffer, output, m.scratch, m.status, NoDiag, to, Append(calls, c))

\* the decimation loops
Decimate ==
    /\ pc = "checked"
    /\ \E m \in {IF handle.kind = "SplitRadix"
                 THEN SplitRadix_decimate(handle, Mem(buffer, scratch, "ok"))
                 ELSE SplitRadixAvx_decimate(handle,
                                             Mem(buffer, scratch, "ok"))} :
           Stage(m, "decimated")

\* self.fft_half.process_inline
InnerHalf ==
    /\ pc = "decimated"
    /\ \E m \in {IF handle.kind = "SplitRadix"
                 THEN SplitRadix_inner_half(handle, Mem(buffer, scratch, "ok"))
                 ELSE SplitRadixAvx_inner_half(handle,
                                               Mem(buffer, scratch, "ok"))},
          c \in {IF handle.kind = "SplitRadix"
                 THEN SplitRadix_call_half(handle, Mem(buffer, scratch, "ok"))
                 ELSE SplitRadixAvx_call_half(handle,
                                              Mem(buffer, scratch, "ok"))} :
           StageCall(m, c, "half")

\* self.fft_quarter.process_inline on the first odd quarter
InnerQuarter1 ==
    /\ pc = "half"
    /\ \E m \in {IF handle.kind = "SplitRadix"
                 THEN SplitRadix_inner_quarter1(handle, Mem(buffer, scratch, "ok"))
                 ELSE SplitRadixAvx_inner_quarter1(handle,
                                               Mem(buffer, scratch, "ok"))},
          c \in {IF handle.kind = "SplitRadix"
                 THEN SplitRadix_call_quarter1(handle, Mem(buffer, scratch, "ok"))
                 ELSE SplitRadixAvx_call_quarter1(handle,
                                              Mem(buffer, scratch, "ok"))} :
           StageCall(m, c, "quarter1")

\* self.fft_quarter.process_inline on the second odd quarter
InnerQuarter3 ==
    /\ pc = "quarter1"
    /\ \E m \in {IF handle.kind = "SplitRadix"
                 THEN SplitRadix_inner_quarter3(handle, Mem(buffer, scratch, "ok"))
                 ELSE SplitRadixAvx_inner_quarter3(handle,
                                               Mem(buffer, scratch, "ok"))},
          c \in {IF handle.kind = "SplitRadix"
                 THEN SplitRadix_call_quarter3(handle, Mem(buffer, scratch, "ok"))
                 ELSE SplitRadixAvx_call_quarter3(handle,
                                              Mem(buffer, scratch, "ok"))} :
           StageCall(m, c, "quarter3")

\* the recombination loops
Recombine ==
    /\ pc = "quarter3"
    /\ \E m \in {IF handle.kind = "SplitRadix"
                 THEN SplitRadix_recombine(handle, Mem(buffer, scratch, "ok"))
                 ELSE SplitRadixAvx_recombine(handle,
                                              Mem(buffer, scratch, "ok"))} :
           Stage(m, "done")

\* process_inline of a kernel
Run_kernel ==
    /\ pc = "called"
    /\ op = "process_inline"
    /\ IsKernel(handle)
    /\ \E m \in {Kernel_process_inline(handle, buffer, scratch)} :
           Land(m.buffer, output, m.scratch, m.status, "done")

Call_process_with_scratch(chained) ==
    /\ pc = "idle"
    /\ hist = <<>>
    /\ IsCommonSimd(handle)
    /\ \E a \in FftArgs(handle, "process_with_scratch", chained) :
          Called("process_with_scratch", a)

Call_process_multi(chained) ==
    /\ pc = "idle"
    /\ hist = <<>>
    /\ IsCommonSimd(handle)
    /\ \E a \in FftArgs(handle, "process_multi", chained) :
          Called("process_multi", a)

Call_process_inplace_with_scratch(chained) ==
    /\ pc = "idle"
    /\ hist = <<>>
    /\ IsCommonSimd(handle)
    /\ \E a \in FftArgs(handle, "process_inplace_with_scratch", chained) :
          Called("process_inplace_with_scratch", a)

Call_process_inplace_multi(chained) ==
    /\ pc = "idle"
    /\ hist = <<>>
    /\ IsCommonSimd(handle)
    /\ \E a \in FftArgs(handle, "process_inplace_multi", chained) :
          Called("process_inplace_multi", a)

Run_process_with_scratch ==
    /\ pc = "called"
    /\ op = "process_with_scratch"
    /\ \E m \in {process_with_scratch(handle, buffer, output, scratch)} :
          LandDiag(m.input, m.output, m.scratch, m.status, DiagOf(m),
                   "done")

Run_process_multi ==
    /\ pc = "called"
    /\ op = "process_multi"
    /\ \E m \in {process_multi(handle, buffer, output, scratch)} :
          LandDiag(m.input, m.output, m.scratch, m.status, DiagOf(m),
                   "done")

Run_process_inplace_with_scratch ==
    /\ pc = "called"
    /\ op = "process_inplace_with_scratch"
    /\ \E m \in {process_inplace_with_scratch(handle, buffer, scratch)} :
          LandDiag(m.buffer, output, m.scratch, m.status, DiagOf(m),
                   "done")

Run_process_inplace_multi ==
    /\ pc = "called"
    /\ op = "process_inplace_multi"
    /\ \E m \in {process_inplace_multi(handle, buffer, scratch)} :
          LandDiag(m.buffer, output, m.scratch, m.status, DiagOf(m),
                   "done")

(***************************************************************************)
(* A second call.  The caller either calls the same handle again on the    *)
(* same input, with the output and the scratch as the first call left      *)
(* them, or builds the transform of the other direction and calls it on    *)
(* the result of the first call.                                           *)
(***************************************************************************)
MaxCalls == 2

\* the slice a call leaves its result in
Result(e) == IF OutOfPlace(e.op) THEN e.output ELSE e.buffer

Call_again ==
    /\ pc = "done"
    /\ Len(hist) < MaxCalls
    /\ Called(op, Slices(orig.buffer, output, scratch))

\* the same transform in the other direction, built by the same constructors
RECURSIVE Counterpart(_)
Counterpart(h) ==
    CASE h.kind = "DFT" -> DFT_new(h.len, ~h.inverse)
      [] h.kind = "Bluesteins" -> Bluesteins_new(h.len, ~h.inverse)
      [] h.kind = "MixedRadixAvx4x2" -> MixedRadixAvx4x2_new_with_avx(~h.inverse)
      [] h.kind = "MixedRadixAvx4x4" -> MixedRadixAvx4x4_new_with_avx(~h.inverse)
      [] h.kind = "MixedRadixAvx4x8" -> MixedRadixAvx4x8_new_with_avx(~h.inverse)
      [] h.kind = "MixedRadixAvx8x8" -> MixedRadixAvx8x8_new_with_avx(~h.inverse)
      [] h.kind = "SplitRadix" ->
             SplitRadix_new(Counterpart(h.fft_half),
                            Counterpart(h.fft_quarter)).handle
      [] h.kind = "SplitRadixAvx" ->
             SplitRadixAvx_new_with_avx(Counterpart(h.fft_half),
                                        Counterpart(h.fft_quarter)).handle
      [] h.kind = "CommonSimd" ->
             CommonSimd_new_with_avx(Counterpart(h.common_data.inner_fft))

New_counterpart ==
    /\ pc = "done"
    /\ Len(hist) < MaxCalls
    /\ handle' = Counterpart(handle)
    /\ ctor' = Ctor(ctor.op, ctor.has_avx, ctor.has_fma,
                    [i \in DOMAIN ctor.inners |-> Counterpart(ctor.inners[i])],
                    ~ctor.inverse, "ok")
    /\ pc' = "idle"
    /\ UNCHANGED <<op, buffer, output, scratch, orig, hist, diag, calls, heap,
                   threads>>

Call_retained ==
    /\ pc = "idle"
    /\ hist # <<>>
    /\ Called(op, FreshArgs(handle, op, Result(hist[Len(hist)])))

\* the CPU features the machine may have: <<avx, fma>>
Features == BOOLEAN \X BOOLEAN

\* one transform is built and called once
Next ==
    \/ New_SplitRadix(InnerPairs)
    \/ New_SplitRadixAvx(InnerPairs, Features)
    \/ New_MixedRadixAvx4x2(Features)
    \/ New_MixedRadixAvx4x4(Features)
    \/ New_MixedRadixAvx4x8(Features)
    \/ New_MixedRadixAvx8x8(Features)
    \/ New_CommonSimd(InnerFfts, Features)
    \/ Call_process_inline(FALSE)
    \/ Check
    \/ Decimate
    \/ InnerHalf
    \/ InnerQuarter1
    \/ InnerQuarter3
    \/ Recombine
    \/ Run_kernel
    \/ Call_process_with_scratch(FALSE)
    \/ Call_process_multi(FALSE)
    \/ Call_process_inplace_with_scratch(FALSE)
    \/ Call_process_inplace_multi(FALSE)
    \/ Run_process_with_scratch
    \/ Run_process_multi
    \/ Run_process_inplace_with_scratch
    \/ Run_process_inplace_multi

Spec == Init /\ [][Next]_vars

\* the steps of a call in flight
Running ==
    \/ Check
    \/ Decimate
    \/ InnerHalf
    \/ InnerQuarter1
    \/ InnerQuarter3
    \/ Recombine
    \/ Run_kernel
    \/ Run_process_with_scratch
    \/ Run_process_multi
    \/ Run_process_inplace_with_scratch
    \/ Run_process_inplace_multi

\* the transforms are called up to MaxCalls times
NextChain ==
    \/ New_SplitRadix(ChainPairs)
    \/ New_SplitRadixAvx(ChainPairs, Features)
    \/ New_MixedRadixAvx4x2(Features)
    \/ New_MixedRadixAvx4x4(Features)
    \/ New_MixedRadixAvx4x8(Features)
    \/ New_MixedRadixAvx8x8(Features)
    \/ New_CommonSimd(InnerFfts, Features)
    \/ Call_process_inline(TRUE)
    \/ Check
    \/ Decimate
    \/ InnerHalf
    \/ InnerQuarter1
    \/ InnerQuarter3
    \/ Recombine
    \/ Run_kernel
    \/ Call_process_with_scratch(TRUE)
    \/ Call_process_multi(TRUE)
    \/ Call_process_inplace_with_scratch(TRUE)
    \/ Call_process_inplace_multi(TRUE)
    \/ Run_process_with_scratch
    \/ Run_process_multi
    \/ Run_process_inplace_with_scratch
    \/ Run_process_inplace_multi
    \/ Call_again
    \/ New_counterpart
    \/ Call_retained

SpecChain == Init /\ [][NextChain]_vars

(***************************************************************************)
(* Two threads share one handle.  Each calls process_inline on slices of   *)
(* its own: a slice is a region <<from, to>> of the heap, and a stage of a *)
(* call reads and writes the heap through the regions of its two slices.   *)
(***************************************************************************)
Threads == {1, 2}

\* the inner transforms of the shared handles
ThreadPairs ==
    {<<DFT_new(2 * q, d), DFT_new(q, d)>> : q \in {2, 4}, d \in BOOLEAN}
    \cup {<<Kernel4x4(d), Kernel4x2(d)>> : d \in BOOLEAN}

\* the region behind the buffer of thread t's call
BufferOf(t) == threads[t].buf

\* one scratch region used by every call, whoever makes it
ScratchOf_static(t) == threads[1].scr

\* the region behind the scratch of thread t's call
ScratchOf(t) == threads[t].scr

\* what thread t's call sees through its slices
ThreadMem(t) ==
    Mem(Slice(heap, BufferOf(t)[1], BufferOf(t)[2]),
        Slice(heap, ScratchOf(t)[1], ScratchOf(t)[2]), "ok")

\* the heap after x is written through the slice of region r
WriteRegion(hp, r, x) ==
    [k \in 1..Len(hp) |-> IF r[1] < k /\ k <= r[2] THEN x[k - r[1]] ELSE hp[k]]

\* the two calls are made: the slices are laid out one thread after the
\* other, or the two buffers before the two scratches
Spawn ==
    /\ pc = "idle"
    /\ IsFftInline(handle)
    /\ hist = <<>>
    /\ \E x2 \in {Ones(HLen(handle)), Impulse(HLen(handle), 1)} :
       \E interleaved \in BOOLEAN :
          LET n == HLen(handle)
              req == get_required_scratch_len(handle)
              x1 == Ramp(n)
              s1 == Junk(req)
              s2 == [k \in 1..req |-> <<k, 2 * k + 1>>]
              regions(t) ==
                  IF interleaved
                  THEN [buf |-> <<(t - 1) * n, t * n>>,
                        scr |-> <<2 * n + (t - 1) * req, 2 * n + t * req>>]
                  ELSE [buf |-> <<(t - 1) * (n + req), (t - 1) * (n + req) + n>>,
                        scr |-> <<(t - 1) * (n + req) + n, t * (n + req)>>]
          IN  /\ heap' = IF interleaved THEN x1 \o x2 \o s1 \o s2
                         ELSE x1 \o s1 \o x2 \o s2
              /\ threads' =
                     [t \in Threads |->
                         [pc |-> "called",
                          buf |-> regions(t).buf,
                          scr |-> regions(t).scr,
                          orig |-> IF t = 1 THEN Slices(x1, <<>>, s1)
                                   ELSE Slices(x2, <<>>, s2)]]
    /\ pc' = "shared"
    /\ UNCHANGED <<handle, ctor, op, buffer, output, scratch, orig, hist, diag,
                   calls>>

\* a stage of thread t's call has run and left m
ThreadLand(t, m, next) ==
    /\ heap' = WriteRegion(WriteRegion(heap, BufferOf(t), m.buffer),
                           ScratchOf(t), m.scratch)
    /\ threads' = [threads EXCEPT ![t].pc =
                      CASE m.status = "ok" -> next
                        [] m.status = "panic" -> "panicked"
                        [] m.status = "ub" -> "ub"]
    /\ UNCHANGED <<handle, ctor, pc, op, buffer, output, scratch, orig, hist,
                   diag, calls>>

ThreadAt(t, at) == pc = "shared" /\ threads[t].pc = at

T_Check(t) ==
    /\ ThreadAt(t, "called")
    /\ IsSplitRadix(handle)
    /\ \E m \in {ThreadMem(t)} :
          ThreadLand(t,
              Mem(m.buffer, m.scratch,
                  IF handle.kind = "SplitRadix"
                  THEN (IF SplitRadix_checks(handle, m.buffer, m.scratch)
                        THEN "ok" ELSE "panic")
                  ELSE (IF SplitRadixAvx_checks(handle, m.buffer, m.scratch)
                        THEN "ok" ELSE "panic")),
              "checked")

T_Decimate(t) ==
    /\ ThreadAt(t, "checked")
    /\ \E m \in {IF handle.kind = "SplitRadix"
                 THEN SplitRadix_decimate(handle, ThreadMem(t))
                 ELSE SplitRadixAvx_decimate(handle, ThreadMem(t))} :
          ThreadLand(t, m, "decimated")

T_InnerHalf(t) ==
    /\ ThreadAt(t, "decimated")
    /\ \E m \in {IF handle.kind = "SplitRadix"
                 THEN SplitRadix_inner_half(handle, ThreadMem(t))
                 ELSE SplitRadixAvx_inner_half(handle, ThreadMem(t))} :
          ThreadLand(t, m, "half")

T_InnerQuarter1(t) ==
    /\ ThreadAt(t, "half")
    /\ \E m \in {IF handle.kind = "SplitRadix"
                 THEN SplitRadix_inner_quarter1(handle, ThreadMem(t))
                 ELSE SplitRadixAvx_inner_quarter1(handle, ThreadMem(t))} :
          ThreadLand(t, m, "quarter1")

T_InnerQuarter3(t) ==
    /\ ThreadAt(t, "quarter1")
    /\ \E m \in {IF handle.kind = "SplitRadix"
                 THEN SplitRadix_inner_quarter3(handle, ThreadMem(t))
                 ELSE SplitRadixAvx_inner_quarter3(handle, ThreadMem(t))} :
          ThreadLand(t, m, "quarter3")

T_Recombine(t) ==
    /\ ThreadAt(t, "quarter3")
    /\ \E m \in {IF handle.kind = "SplitRadix"
                 THEN SplitRadix_recombine(handle, ThreadMem(t))
                 ELSE SplitRadixAvx_recombine(handle, ThreadMem(t))} :
          ThreadLand(t, m, "done")

T_Run_kernel(t) ==
    /\ ThreadAt(t, "called")
    /\ IsKernel(handle)
    /\ \E m \in {Kernel_process_inline(handle, ThreadMem(t).buffer,
                                       ThreadMem(t).scratch)} :
          ThreadLand(t, m, "done")

\* one handle is built on a machine with AVX and FMA and called by two
\* threads at once
NextThreads ==
    \/ New_SplitRadix(ThreadPairs)
    \/ New_SplitRadixAvx(ThreadPairs, {<<TRUE, TRUE>>})
    \/ New_MixedRadixAvx4x2({<<TRUE, TRUE>>})
    \/ Spawn
    \/ \E t \in Threads : T_Check(t)
    \/ \E t \in Threads : T_Decimate(t)
    \/ \E t \in Threads : T_InnerHalf(t)
    \/ \E t \in Threads : T_InnerQuarter1(t)
    \/ \E t \in Threads : T_InnerQuarter3(t)
    \/ \E t \in Threads : T_Recombine(t)
    \/ \E t \in Threads : T_Run_kernel(t)

SpecThreads == Init /\ [][NextThreads]_vars

(***************************************************************************)
(* The properties.                                                         *)
(***************************************************************************)
\* the call in flight was made with a buffer (and output) of exactly the
\* handle's length and a scratch of at least the advertised length
ExactLengths ==
    /\ Len(orig.buffer) = HLen(handle)
    /\ OutOfPlace(op) => Len(orig.output) = HLen(handle)
    /\ Len(orig.scratch) >= AdvertisedScratch(handle, op)

Aborted == pc \in {"panicked", "ub"}

\* C1: a SplitRadix::process_inline call on a buffer of length N and a
\* scratch of length N/2 returns, and leaves in the buffer the unnormalized
\* DFT of the original buffer in the handle's direction:
\* buffer[k] = sum over n of x[n] * W^(k*n)
SplitRadixIsDft ==
    (handle.kind = "SplitRadix" /\ handle.len > 0) =>
        /\ pc = "done" => buffer = Dft(orig.buffer, handle.inverse)
        /\ Aborted => ~(/\ Len(orig.buffer) = handle.len
                        /\ Len(orig.scratch) = handle.len \div 2)

SplitRadixIsDftWitness ==
    /\ pc = "done"
    /\ handle.kind = "SplitRadix"
    /\ handle.len = 128
    /\ handle.inverse
    /\ orig.buffer = Ramp(128)
    /\ Len(orig.scratch) = 64

\* C2: process_inline of a kernel on a buffer of length N returns and
\* overwrites the buffer with its unnormalized N-point DFT in natural order;
\* the unit impulse at index 0 maps to the all-ones vector and the all-ones
\* vector to N at index 0 and 0 elsewhere
KernelIsDft ==
    IsKernel(handle) =>
        /\ pc = "done" =>
              /\ buffer = Dft(orig.buffer, handle.inverse)
              /\ orig.buffer = Impulse(HLen(handle), 0) =>
                     buffer = Ones(HLen(handle))
              /\ orig.buffer = Ones(HLen(handle)) =>
                     buffer = [k \in 1..HLen(handle) |->
                                  IF k = 1 THEN <<HLen(handle), 0>> ELSE Zero]
        /\ Aborted => Len(orig.buffer) # HLen(handle)

KernelIsDftWitness ==
    /\ pc = "done"
    /\ handle.kind = "MixedRadixAvx8x8"
    /\ handle.inverse
    /\ orig.buffer = Ones(64)
    /\ buffer[1] = <<64, 0>>

\* the scalar handle built over the inner transforms of a SplitRadixAvx
\* handle, and the memory its call starts from: the same buffer and the
\* first N/2 elements of the scratch
ScalarTwin(h) == SplitRadix_new(h.fft_half, h.fft_quarter).handle
ScalarStart(h) ==
    Mem(orig.buffer, Slice(orig.scratch, 0, h.len \div 2), "ok")

\* C3: SplitRadixAvx::process_inline and SplitRadix::process_inline over the
\* same inner transforms agree: after the decimation the even stream (the
\* first half of the buffer) and the two odd streams (the scratch) are the
\* same, and when the call returns the buffer is the same at every index
AvxEqualsScalar ==
    handle.kind = "SplitRadixAvx" =>
        /\ pc = "decimated" =>
              /\ Slice(buffer, 0, handle.len \div 2)
                 = Slice(SplitRadix_decimate(ScalarTwin(handle),
                                             ScalarStart(handle)).buffer,
                         0, handle.len \div 2)
              /\ Slice(scratch, 0, handle.len \div 2)
                 = SplitRadix_decimate(ScalarTwin(handle),
                                       ScalarStart(handle)).scratch
        /\ pc = "done" =>
              buffer = SplitRadix_process_inline(
                           ScalarTwin(handle), orig.buffer,
                           Slice(orig.scratch, 0, handle.len \div 2)).buffer

AvxEqualsScalarWitness ==
    /\ pc = "done"
    /\ handle.kind = "SplitRadixAvx"
    /\ handle.len = 64
    /\ ~handle.inverse
    /\ orig.buffer = Ramp(64)

\* 1/n in the number field: n * FInv(n) = 1
RECURSIVE FPow(_, _)
FPow(a, k) ==
    IF k = 0 THEN 1
    ELSE IF k % 2 = 0
         THEN Let([h \in {FPow(a, k \div 2)} |-> (h * h) % P])
         ELSE (a * FPow(a, k - 1)) % P
FInv(n) == FPow(n % P, P - 2)
Scaled(x, c) == [k \in 1..Len(x) |-> CScale(x[k], c)]

\* C4: a forward transform of x, then the inverse transform of the same
\* length on the result, then scaling every element by 1/N returns x at
\* every index
RoundTrip ==
    \A i \in 1..(Len(hist) - 1) :
        (/\ ~HIsInverse(hist[i].handle)
         /\ HIsInverse(hist[i + 1].handle)
         /\ HLen(hist[i + 1].handle) = HLen(hist[i].handle)
         /\ hist[i + 1].op = hist[i].op
         /\ Len(hist[i].orig.buffer) = HLen(hist[i].handle)
         /\ hist[i + 1].orig.buffer = Result(hist[i]))
        => Scaled(Result(hist[i + 1]), FInv(HLen(hist[i].handle)))
           = hist[i].orig.buffer

RoundTripWitness ==
    /\ Len(hist) = 2
    /\ hist[1].handle.kind = "SplitRadixAvx"
    /\ hist[1].handle.len = 256
    /\ ~hist[1].handle.inverse
    /\ hist[2].handle.kind = "SplitRadixAvx"
    /\ hist[2].handle.inverse
    /\ hist[1].orig.buffer = Ramp(256)
    /\ hist[2].orig.buffer = hist[1].buffer

BadLengths ==
    CASE op = "process_inline" ->
             \/ Len(orig.buffer) # HLen(handle)
             \/ /\ IsSplitRadix(handle)
                /\ Len(orig.scratch) < get_required_scratch_len(handle)
      [] op = "process_with_scratch" ->
             \/ Len(orig.buffer) # HLen(handle)
             \/ Len(orig.output) # HLen(handle)
             \/ Len(orig.scratch) < handle.common_data.outofplace_scratch_len
      [] op = "process_inplace_with_scratch" ->
             \/ Len(orig.buffer) # HLen(handle)
             \/ Len(orig.scratch) < handle.common_data.inplace_scratch_len
      [] OTHER -> FALSE

\* C6: a process_inline, process_with_scratch or
\* process_inplace_with_scratch call with a buffer, input or output of the
\* wrong length, or with a scratch shorter than the advertised length,
\* aborts: once the method has run the call has panicked, and it never
\* returns
LengthViolationsAbort == BadLengths => pc \in {"called", "panicked"}

LengthViolationsAbortWitness ==
    /\ pc = "panicked"
    /\ op = "process_with_scratch"
    /\ Len(orig.buffer) = HLen(handle)
    /\ Len(orig.output) # HLen(handle)

\* the programming errors of a split-radix constructor call
BadArgs ==
    /\ ctor.op \in {"SplitRadix::new", "SplitRadixAvx::new"}
    /\ \/ HIsInverse(ctor.inners[1]) # HIsInverse(ctor.inners[2])
       \/ HLen(ctor.inners[1]) # 2 * HLen(ctor.inners[2])
       \/ /\ ctor.op = "SplitRadixAvx::new"
          /\ (4 * HLen(ctor.inners[2])) % 16 # 0

\* C7 as stated: a split-radix constructor call with inner transforms that
\* differ in direction, or whose lengths are not 2 : 1, or (SIMD) whose
\* N is not divisible by 16, always aborts and yields neither a handle nor
\* a recoverable error, whatever the CPU features are
CtorErrorsAlwaysAbort ==
    BadArgs => ctor.status = "panic" /\ handle = NoHandle

\* C7, amended: such a call never yields a handle; it aborts, except that
\* SplitRadixAvx::new returns the recoverable error when AVX or FMA is not
\* detected, before it looks at its arguments
CtorErrorsFatal ==
    BadArgs =>
        /\ handle = NoHandle
        /\ IF ctor.op = "SplitRadixAvx::new" /\ ~(ctor.has_avx /\ ctor.has_fma)
           THEN ctor.status = "err"
           ELSE ctor.status = "panic"

CtorErrorsFatalWitness ==
    /\ BadArgs
    /\ ctor.op = "SplitRadixAvx::new"
    /\ ctor.has_avx
    /\ ctor.has_fma
    /\ HLen(ctor.inners[2]) = 3
    /\ pc = "ctor_panic"

SimdCtors ==
    {"SplitRadixAvx::new", "MixedRadixAvx4x2::new", "MixedRadixAvx4x4::new",
     "MixedRadixAvx4x8::new", "MixedRadixAvx8x8::new", "CommonSimd::new"}

\* C8: a SIMD constructor returns the recoverable error exactly when AVX or
\* FMA is not detected, and then it builds no handle; when both are
\* detected it goes on to build the handle (SplitRadixAvx after its
\* assertions)
FeatureGating ==
    ctor.op \in SimdCtors =>
        /\ ctor.status = "err" <=> ~(ctor.has_avx /\ ctor.has_fma)
        /\ ctor.status = "err" => handle = NoHandle
        /\ (ctor.has_avx /\ ctor.has_fma /\ ~BadArgs) =>
               ctor.status = "ok" /\ handle # NoHandle

FeatureGatingWitness ==
    /\ ctor.op = "MixedRadixAvx4x8::new"
    /\ ctor.has_avx
    /\ ~ctor.has_fma
    /\ ctor.status = "err"
    /\ pc = "ctor_err"

\* C9: a SplitRadix or SplitRadixAvx handle has len = 4 * fft_quarter.len,
\* fft_half.len = 2 * fft_quarter.len = len / 2, the direction of both of
\* its inner handles, and a twiddle table of len / 4 complex entries
\* (scalar) or len / 16 vectors of four complex lanes (SIMD); in every
\* state, whatever calls were made
HandleConsistent ==
    IsSplitRadix(handle) =>
        /\ handle.len = 4 * HLen(handle.fft_quarter)
        /\ HLen(handle.fft_half) = 2 * HLen(handle.fft_quarter)
        /\ 2 * HLen(handle.fft_half) = handle.len
        /\ handle.inverse = HIsInverse(handle.fft_half)
        /\ handle.inverse = HIsInverse(handle.fft_quarter)
        /\ IF handle.kind = "SplitRadix"
           THEN /\ 4 * Len(handle.twiddles) = handle.len
                /\ \A i \in DOMAIN handle.twiddles :
                       Len(handle.twiddles[i]) = 2
           ELSE /\ 16 * Len(handle.twiddles) = handle.len
                /\ \A i \in DOMAIN handle.twiddles :
                       Len(handle.twiddles[i]) = 8

HandleConsistentWitness ==
    /\ Len(hist) = 2
    /\ pc = "done"
    /\ handle.kind = "SplitRadixAvx"
    /\ handle.len = 32
    /\ hist[1].handle = handle

InCall ==
    pc \in {"called", "checked", "decimated", "half", "quarter1", "quarter3"}

\* C10: no step of a process call changes the handle, and two calls of the
\* same method on the same handle with identical buffer contents leave
\* identical results
HandleImmutable ==
    /\ [][InCall => handle' = handle]_vars
    /\ [](\A i, j \in DOMAIN hist :
            (/\ hist[i].handle = hist[j].handle
             /\ hist[i].op = hist[j].op
             /\ hist[i].orig.buffer = hist[j].orig.buffer)
            => Result(hist[i]) = Result(hist[j]))

HandleImmutableWitness ==
    /\ Len(hist) = 2
    /\ hist[1].handle = hist[2].handle
    /\ hist[1].op = "process_inline"
    /\ hist[1].handle.kind = "SplitRadix"
    /\ hist[1].orig.buffer = hist[2].orig.buffer
    /\ hist[1].orig.scratch # hist[2].orig.scratch

\* chunk i (from 0) of a batch x of chunks of length n
Chunk(x, n, i) == Slice(x, i * n, (i + 1) * n)

\* C11: when a batched call on M * N elements has returned, chunk i of its
\* result (and of its input or buffer) is what the single-chunk method
\* leaves when it is called on chunk i alone with the scratch the caller
\* passed, for every i < M
BatchEqualsSingle ==
    (pc = "done" /\ Multi(op)) =>
        \A i \in 0..(Len(orig.buffer) \div HLen(handle) - 1) :
            IF op = "process_multi"
            THEN Let([r \in {process_with_scratch(handle,
                                 Chunk(orig.buffer, HLen(handle), i),
                                 Chunk(orig.output, HLen(handle), i),
                                 orig.scratch)} |->
                     /\ r.status = "ok"
                     /\ Chunk(output, HLen(handle), i) = r.output
                     /\ Chunk(buffer, HLen(handle), i) = r.input])
            ELSE Let([r \in {process_inplace_with_scratch(handle,
                                 Chunk(orig.buffer, HLen(handle), i),
                                 orig.scratch)} |->
                     /\ r.status = "ok"
                     /\ Chunk(buffer, HLen(handle), i) = r.buffer])

BatchEqualsSingleWitness ==
    /\ pc = "done"
    /\ op = "process_multi"
    /\ HLen(handle) = 16
    /\ Len(orig.buffer) = 32
    /\ Chunk(output, 16, 1) # Chunk(output, 16, 0)
    /\ Chunk(output, 16, 1) # Chunk(orig.output, 16, 1)

\* a batched call has ended
BatchEnded == Multi(op) /\ pc \in {"done", "panicked", "ub"}

\* the total length is a multiple of N and, for process_multi, the input
\* and the output have the same length
BatchLengthsMultiple ==
    /\ Len(orig.buffer) % HLen(handle) = 0
    /\ op = "process_multi" => Len(orig.buffer) = Len(orig.output)

\* the call aborted before it transformed a chunk
AbortedUntouched ==
    /\ pc = "panicked"
    /\ buffer = orig.buffer
    /\ output = orig.output
    /\ scratch = orig.scratch

\* C12 as stated: a batched call runs only when the total length is a
\* positive multiple of N (and input and output have equal length); for
\* every other length it aborts before any chunk is transformed
BatchNeedsPositiveMultiple ==
    BatchEnded =>
        IF Len(orig.buffer) > 0 /\ BatchLengthsMultiple
        THEN TRUE
        ELSE AbortedUntouched

\* C12, amended: a batched call runs only when the total length is a
\* multiple of N (and input and output have equal length); for every other
\* length it aborts before any chunk is transformed; the empty batch is
\* accepted and returns with nothing transformed when the scratch is long
\* enough
BatchNeedsMultiple ==
    BatchEnded =>
        /\ ~BatchLengthsMultiple => AbortedUntouched
        /\ pc = "done" => BatchLengthsMultiple
        /\ (/\ Len(orig.buffer) = 0
            /\ BatchLengthsMultiple
            /\ Len(orig.scratch) >= AdvertisedScratch(handle, op)) =>
               /\ pc = "done"
               /\ buffer = orig.buffer
               /\ output = orig.output

BatchNeedsMultipleWitness ==
    /\ BatchEnded
    /\ op = "process_inplace_multi"
    /\ Len(orig.buffer) = 0
    /\ pc = "done"

\* the operands of the call that violate a length check of the method
Offenders ==
    {o \in {"Input", "Output", "Buffer", "Scratch"} :
        CASE o = "Input" ->
                 /\ OutOfPlace(op)
                 /\ IF Multi(op) THEN Len(orig.buffer) % HLen(handle) # 0
                    ELSE Len(orig.buffer) # HLen(handle)
          [] o = "Buffer" ->
                 /\ ~OutOfPlace(op)
                 /\ IF Multi(op) THEN Len(orig.buffer) % HLen(handle) # 0
                    ELSE Len(orig.buffer) # HLen(handle)
          [] o = "Output" ->
                 /\ OutOfPlace(op)
                 /\ IF Multi(op) THEN Len(orig.output) # Len(orig.buffer)
                    ELSE Len(orig.output) # HLen(handle)
          [] o = "Scratch" ->
                 Len(orig.scratch) < AdvertisedScratch(handle, op)}

\* the length of an operand of the call, and the size its check expects
OperandLen(o) ==
    CASE o \in {"Input", "Buffer"} -> Len(orig.buffer)
      [] o = "Output" -> Len(orig.output)
      [] o = "Scratch" -> Len(orig.scratch)

OperandExpected(o) ==
    CASE o \in {"Input", "Buffer"} -> HLen(handle)
      [] o = "Output" -> IF Multi(op) THEN Len(orig.buffer) ELSE HLen(handle)
      [] o = "Scratch" -> AdvertisedScratch(handle, op)

\* C13: when a length check of process_with_scratch, process_multi,
\* process_inplace_with_scratch or process_inplace_multi fails, the
\* diagnostic names an operand that violated a check, with the expected
\* and the observed size of that operand
DiagNamesOffender ==
    (/\ pc = "panicked"
     /\ op \in {"process_with_scratch", "process_multi",
                "process_inplace_with_scratch", "process_inplace_multi"}
     /\ Offenders # {}) =>
        /\ diag # NoDiag
        /\ diag.operand \in Offenders
        /\ diag.observed = OperandLen(diag.operand)
        /\ diag.expected = OperandExpected(diag.operand)

\* thread t's call has taken a step
Stepped(t) ==
    /\ pc = "shared"
    /\ pc' = "shared"
    /\ threads'[t].pc # threads[t].pc

\* the step left every location of thread u's slices as it was
Untouched(u) ==
    /\ threads'[u] = threads[u]
    /\ Slice(heap', threads[u].buf[1], threads[u].buf[2])
           = Slice(heap, threads[u].buf[1], threads[u].buf[2])
    /\ Slice(heap', threads[u].scr[1], threads[u].scr[2])
           = Slice(heap, threads[u].scr[1], threads[u].scr[2])

\* C14: two threads call process_inline on one handle with disjoint
\* slices; under every interleaving of the stages, a thread whose call has
\* returned holds in its buffer what the call leaves when it runs alone,
\* and a step of one thread changes neither the handle nor a location of
\* the other thread's slices
ThreadsIndependent ==
    /\ [](pc = "shared" =>
            \A t \in Threads :
                threads[t].pc = "done" =>
                    Slice(heap, threads[t].buf[1], threads[t].buf[2])
                        = process_inline(handle, threads[t].orig.buffer,
                                         threads[t].orig.scratch).buffer)
    /\ [][\A t \in Threads :
              Stepped(t) =>
                  /\ handle' = handle
                  /\ \A u \in Threads \ {t} : Untouched(u)]_vars

ThreadsIndependentWitness ==
    /\ pc = "shared"
    /\ handle.kind = "SplitRadixAvx"
    /\ threads[1].pc = "done"
    /\ threads[2].pc = "done"
    /\ threads[1].buf[2] = threads[2].buf[1]

\* C15: after the decimation of SplitRadix::perform_fft on x of length
\* N = 4m, buffer[i] = x[2i] for i < 2m, scratch[i] = x[4i+1] for i < m,
\* scratch[m] = x[N-1] and scratch[m+i] = x[4i-1] for 0 < i < m
ScalarDecimated ==
    (pc = "decimated" /\ handle.kind = "SplitRadix") =>
        LET x == orig.buffer
            N == HLen(handle)
            m == N \div 4
        IN  /\ \A i \in 0..(2 * m - 1) : At(buffer, i) = At(x, 2 * i)
            /\ \A i \in 0..(m - 1) : At(scratch, i) = At(x, 4 * i + 1)
            /\ At(scratch, m) = At(x, N - 1)
            /\ \A i \in 1..(m - 1) : At(scratch, m + i) = At(x, 4 * i - 1)

ScalarDecimatedWitness ==
    /\ pc = "decimated"
    /\ handle.kind = "SplitRadix"
    /\ HLen(handle) = 64
    /\ orig.buffer = Ramp(64)
    /\ At(scratch, 16 + 5) = At(orig.buffer, 19)

\* the samples a vector of four complex numbers holds
Samples(v) == <<<<v[1], v[2]>>, <<v[3], v[4]>>, <<v[5], v[6]>>, <<v[7], v[8]>>>>

\* C16: after the decimation of SplitRadixAvx (N divisible by 16),
\* buffer[i] = x[2i] for i < N/2, scratch_quarter1[i] = x[4i+1] for i < N/4,
\* scratch_quarter3[0 .. N/4) = x[N-1], x[3], x[7], ..., x[N-5]; x[N-1] was
\* stored at position N/4 of scratch_quarter3 and copied to position 0; and
\* split_evens_f32(row0, row1) is (elements 0, 2, 4, 6 ; elements 1, 3, 5, 7)
\* of the eight samples of row0 followed by row1
SimdDecimated ==
    (pc = "decimated" /\ handle.kind = "SplitRadixAvx" /\ HLen(handle) > 0) =>
        LET x == orig.buffer
            N == HLen(handle)
            q == N \div 4
            rows == Slice(x, 0, 8)
            split == split_evens_f32(load_avx_f32(x, 0), load_avx_f32(x, 4))
        IN  /\ N % 16 = 0
            /\ \A i \in 0..(N \div 2 - 1) : At(buffer, i) = At(x, 2 * i)
            /\ \A i \in 0..(q - 1) : At(scratch, i) = At(x, 4 * i + 1)
            /\ At(scratch, q) = At(x, N - 1)
            /\ \A i \in 1..(q - 1) : At(scratch, q + i) = At(x, 4 * i - 1)
            /\ At(scratch, q + q) = At(x, N - 1)
            /\ Samples(split[1]) = [k \in 1..4 |-> At(rows, 2 * (k - 1))]
            /\ Samples(split[2]) = [k \in 1..4 |-> At(rows, 2 * (k - 1) + 1)]

SimdDecimatedWitness ==
    /\ pc = "decimated"
    /\ handle.kind = "SplitRadixAvx"
    /\ HLen(handle) = 32
    /\ orig.buffer = Ramp(32)
    /\ At(scratch, 8 + 7) = At(orig.buffer, 27)
    /\ At(scratch, 8) = At(orig.buffer, 31)

\* the imaginary unit
J == <<0, 1>>

\* C17: the recombination of SplitRadix and of SplitRadixAvx takes the inner
\* results E' = buffer[0 .. 2m), O1' = scratch[0 .. m), O3' = scratch[m .. 2m)
\* to buffer[k] = E'[k] + S, buffer[k+2m] = E'[k] - S,
\* buffer[k+m] = E'[k+m] + D', buffer[k+3m] = E'[k+m] - D' for every k < m,
\* with S = W_k O1'[k] + conj(W_k) O3'[k], D = W_k O1'[k] - conj(W_k) O3'[k],
\* D' = jD for an inverse handle and -jD for a forward one
RecombinationFormulas ==
    [][(pc = "quarter3" /\ pc' = "done") =>
        LET N == HLen(handle)
            m == N \div 4
            W(k) == single_twiddle(k, N, handle.inverse)
            S(k) == CAdd(CMul(W(k), At(scratch, k)),
                         CMul(CConj(W(k)), At(scratch, m + k)))
            D(k) == CSub(CMul(W(k), At(scratch, k)),
                         CMul(CConj(W(k)), At(scratch, m + k)))
            Dr(k) == IF handle.inverse THEN CMul(J, D(k))
                     ELSE CSub(Zero, CMul(J, D(k)))
        IN  \A k \in 0..(m - 1) :
              /\ At(buffer', k) = CAdd(At(buffer, k), S(k))
              /\ At(buffer', k + 2 * m) = CSub(At(buffer, k), S(k))
              /\ At(buffer', k + m) = CAdd(At(buffer, k + m), Dr(k))
              /\ At(buffer', k + 3 * m) = CSub(At(buffer, k + m), Dr(k))]_vars

\* a forward SplitRadixAvx of N = 32 has recombined inner results whose first
\* and third quarters differ
RecombinationFormulasWitness ==
    /\ pc = "done"
    /\ op = "process_inline"
    /\ handle.kind = "SplitRadixAvx"
    /\ ~handle.inverse
    /\ HLen(handle) = 32
    /\ orig.buffer = Ramp(32)
    /\ At(scratch, 1) # At(scratch, 9)

\* the three invocations of the claim: fft_half on buffer[0 .. N/2), then
\* fft_quarter on scratch[0 .. N/4) and on scratch[N/4 .. N/2), each with
\* buffer[N/2 .. N) as its scratch
ExpectedCalls(h) ==
    LET N == HLen(h)
        tail == Region("buffer", N \div 2, N)
    IN  <<InnerCall(h.fft_half, Region("buffer", 0, N \div 2), tail),
          InnerCall(h.fft_quarter, Region("scratch", 0, N \div 4), tail),
          InnerCall(h.fft_quarter, Region("scratch", N \div 4, N \div 2), tail)>>

Overlap(r, q) == r.of = q.of /\ r.from < q.to /\ q.from < r.to

\* C18: in every process_inline call of SplitRadix and SplitRadixAvx no inner
\* transform runs before the decimation is complete; fft_half runs once on
\* buffer[0 .. N/2), then fft_quarter runs twice, on scratch[0 .. N/4) and on
\* the N/4 elements scratch[N/4 .. N/2), each with buffer[N/2 .. N) as scratch;
\* the recombination starts after the third; and no inner transform gets a
\* data slice that overlaps its scratch slice
StagesInOrder ==
    (op = "process_inline" /\ handle # NoHandle /\ IsSplitRadix(handle)) =>
        /\ Len(calls) <= 3
        /\ calls = SubSeq(ExpectedCalls(handle), 1, Len(calls))
        /\ pc \in {"called", "checked", "decimated"} => calls = <<>>
        /\ pc = "half" => Len(calls) = 1
        /\ pc = "quarter1" => Len(calls) = 2
        /\ pc \in {"quarter3", "done"} => Len(calls) = 3
        /\ \A i \in 1..Len(calls) :
              /\ ~Overlap(calls[i].data, calls[i].scratch)
              /\ calls[i].data.to - calls[i].data.from = HLen(calls[i].fft)
        /\ pc = "decimated" =>
              \A i \in 0..(HLen(handle) \div 2 - 1) :
                  At(buffer, i) = At(orig.buffer, 2 * i)

\* a SplitRadixAvx of N = 32 with a scratch of N/2 + 1 elements has made its
\* three inner calls
StagesInOrderWitness ==
    /\ pc = "quarter3"
    /\ op = "process_inline"
    /\ handle.kind = "SplitRadixAvx"
    /\ HLen(handle) = 32
    /\ Len(scratch) = 17
    /\ Len(calls) = 3

\* the entry of the twiddle table of h that the recombination multiplies
\* into element k of the odd quarters: entry k of the scalar table, lane
\* k mod 4 of vector k div 4 of the SIMD table
TableTwiddle(h, k) ==
    IF h.kind = "SplitRadix" THEN At(h.twiddles, k)
    ELSE Samples(At(h.twiddles, k \div 4))[(k % 4) + 1]

\* C19: entry i of the scalar table is the size-N twiddle of index i in the
\* handle's direction for i < N/4, lane j of vector i of the SIMD table is
\* the size-N twiddle of index 4i + j for i < N/16, j < 4, and the
\* recombination multiplies that entry k into O1'[k] and its conjugate into
\* O3'[k], so that the twiddle applied to element k has index k
TwiddleIndexing ==
    /\ [](IsSplitRadix(handle) =>
            LET N == HLen(handle)
            IN  IF handle.kind = "SplitRadix"
                THEN \A i \in 0..(N \div 4 - 1) :
                        At(handle.twiddles, i)
                            = single_twiddle(i, N, handle.inverse)
                ELSE \A i \in 0..(N \div 16 - 1) : \A j \in 0..3 :
                        Samples(At(handle.twiddles, i))[j + 1]
                            = single_twiddle(4 * i + j, N, handle.inverse))
    /\ [][(pc = "quarter3" /\ pc' = "done") =>
            LET N == HLen(handle)
                m == N \div 4
            IN  \A k \in 0..(m - 1) :
                  /\ CSub(At(buffer', k), At(buffer, k))
                        = CAdd(CMul(TableTwiddle(handle, k), At(scratch, k)),
                               CMul(CConj(TableTwiddle(handle, k)),
                                    At(scratch, m + k)))
                  /\ TableTwiddle(handle, k)
                        = single_twiddle(k, N, handle.inverse)]_vars

\* an inverse SplitRadixAvx of N = 64, whose table has four vectors, has
\* recombined
TwiddleIndexingWitness ==
    /\ pc = "done"
    /\ op = "process_inline"
    /\ handle.kind = "SplitRadixAvx"
    /\ handle.inverse
    /\ HLen(handle) = 64
    /\ Len(handle.twiddles) = 4
    /\ TableTwiddle(handle, 13) = single_twiddle(13, 64, TRUE)
    /\ Len(calls) = 3

\* the A x B kernels: A rows of B columns, N = A * B
IsGridKernel(h) ==
    h.kind \in {"MixedRadixAvx4x4", "MixedRadixAvx4x8", "MixedRadixAvx8x8"}
GridRows(h) == IF h.kind = "MixedRadixAvx8x8" THEN 8 ELSE 4
GridCols(h) == IF h.kind = "MixedRadixAvx4x4" THEN 4 ELSE 8

\* the entry of the table of h for row a in 1 .. A-1 and column b in 0 .. B-1:
\* the rows follow each other, each in vectors of four consecutive columns
KernelTwiddle(h, a, b) ==
    Samples(h.twiddles[((a - 1) * GridCols(h) + b) \div 4 + 1])[(b % 4) + 1]

RECURSIVE SumSeq(_)
SumSeq(s) == IF s = <<>> THEN Zero ELSE CAdd(Head(s), SumSeq(Tail(s)))

\* the A x B transform of x that multiplies the column-butterfly output of
\* row a, column b by the table entry of h for (a, b): size-A transforms down
\* the columns, the multiplication, size-B transforms along the rows, and
\* output k1 + A * k2 from row k1
GridTransform(h, x) ==
    LET A == GridRows(h)
        B == GridCols(h)
        mid == [ab \in (0..(A - 1)) \X (0..(B - 1)) |->
                   SumSeq([r \in 1..A |->
                       CMul(At(x, B * (r - 1) + ab[2]),
                            single_twiddle(ab[1] * (r - 1), A, h.inverse))])]
        twiddled == [ab \in (0..(A - 1)) \X (0..(B - 1)) |->
                        IF ab[1] = 0 THEN mid[ab]
                        ELSE CMul(mid[ab], KernelTwiddle(h, ab[1], ab[2]))]
    IN  [k \in 1..(A * B) |->
            SumSeq([c \in 1..B |->
                CMul(twiddled[<<(k - 1) % A, c - 1>>],
                     single_twiddle((c - 1) * ((k - 1) \div A), B, h.inverse))])]

\* C20: the table of MixedRadixAvx4x4, MixedRadixAvx4x8 and MixedRadixAvx8x8
\* (A x B = 4 x 4, 4 x 8, 8 x 8) holds exactly (A-1) * B complex twiddles, its
\* entry for row a in 1 .. A-1 and column b < B is the size-N twiddle of index
\* a * b, the kernel multiplies the column-butterfly output of row a, columns
\* 4c .. 4c+3 by the vector of indices a * 4c .. a * (4c+3), and the
\* butterfly-8 twiddle vector is the size-8 twiddle of index 1 four times,
\* as (re, im, re, im, re, im, re, im)
KernelTwiddleLayout ==
    (handle # NoHandle /\ IsGridKernel(handle)) =>
        LET A == GridRows(handle)
            B == GridCols(handle)
            w8 == single_twiddle(1, 8, handle.inverse)
        IN  /\ 4 * Len(handle.twiddles) = (A - 1) * B
            /\ \A a \in 1..(A - 1) : \A b \in 0..(B - 1) :
                   KernelTwiddle(handle, a, b)
                       = single_twiddle(a * b, A * B, handle.inverse)
            /\ handle.kind # "MixedRadixAvx4x4" =>
                   handle.twiddles_butterfly8
                       = <<w8[1], w8[2], w8[1], w8[2], w8[1], w8[2], w8[1], w8[2]>>
            /\ (pc = "done" /\ op = "process_inline") =>
                   buffer = GridTransform(handle, orig.buffer)

\* a forward MixedRadixAvx4x8 has transformed a ramp
KernelTwiddleLayoutWitness ==
    /\ pc = "done"
    /\ op = "process_inline"
    /\ handle.kind = "MixedRadixAvx4x8"
    /\ ~handle.inverse
    /\ orig.buffer = Ramp(32)
    /\ Len(handle.twiddles) = 6
    /\ KernelTwiddle(handle, 3, 7) = single_twiddle(21, 32, FALSE)

\* the first chunk of an out-of-place call, the scratch as the method cuts
\* it, and the row transforms of perform_fft_out_of_place on them
FirstInput == Chunk(orig.buffer, HLen(handle), 0)
FirstOutput == Chunk(orig.output, HLen(handle), 0)
CutScratch ==
    Slice(orig.scratch, 0, CommonSimd_get_out_of_place_scratch_len(handle))
FirstRows ==
    perform_fft_out_of_place_rows(handle, FirstInput, FirstOutput, CutScratch)

\* the inner transform's process_inplace_multi on the columns of the first
\* chunk with s as its scratch
InnerRowsWith(s) ==
    Fft_process_inplace_multi(handle.common_data.inner_fft,
                              perform_column_butterflies(handle, FirstInput), s)

\* an out-of-place call that passed its own length checks on at least one chunk
OutOfPlaceRan ==
    /\ OutOfPlace(op)
    /\ pc \in {"done", "panicked", "ub"}
    /\ diag = NoDiag
    /\ Len(orig.buffer) >= HLen(handle)

\* C21: in perform_fft_out_of_place the inner process_inplace_multi gets the
\* caller's scratch, cut to outofplace_scratch_len, when that slice is not
\* empty and the output when it is empty; in both cases the call goes on to
\* the transpose, which writes every element of the output from the input, so
\* that the output keeps nothing the inner transform left in it
OutputScratchAliasing ==
    OutOfPlaceRan =>
        /\ pc = "done"
        /\ FirstRows.status = "ok"
        /\ IF Len(CutScratch) > 0
           THEN /\ FirstRows.input = InnerRowsWith(CutScratch).buffer
                /\ FirstRows.scratch = InnerRowsWith(CutScratch).scratch
                /\ FirstRows.output = FirstOutput
           ELSE /\ FirstRows.input = InnerRowsWith(FirstOutput).buffer
                /\ FirstRows.output = InnerRowsWith(FirstOutput).scratch
                /\ FirstRows.scratch = CutScratch
        /\ \A i \in 0..(Len(orig.buffer) \div HLen(handle) - 1) :
               Chunk(output, HLen(handle), i)
                   = transpose(handle, Chunk(buffer, HLen(handle), i))

\* a call without scratch: the inner transform left values in the output,
\* and the output the call returned holds none of them
OutputScratchAliasingWitness ==
    /\ OutOfPlaceRan
    /\ op = "process_with_scratch"
    /\ pc = "done"
    /\ HLen(handle) = 8
    /\ Len(CutScratch) = 0
    /\ FirstRows.output # orig.output
    /\ \A k \in 1..4 : output[k] # FirstRows.output[k]


\* C23: a SplitRadix::process_inline call that passes the length checks
\* (buffer of the handle's length N = 4q, scratch of at least N/2 elements),
\* on any handle the constructor accepts (q = 0 and q = 1 included), keeps
\* every unchecked index of perform_fft below the length of the slice it
\* indexes; the advertised scratch requirement is exactly N/2
ScalarIndicesInBounds ==
    /\ handle.kind = "SplitRadix" =>
         /\ get_required_scratch_len(handle) = HLen(handle) \div 2
         /\ HLen(handle) = 4 * HLen(handle.fft_quarter)
    /\ ( /\ handle.kind = "SplitRadix"
         /\ op = "process_inline"
         /\ Len(orig.buffer) = HLen(handle)
         /\ Len(orig.scratch) >= HLen(handle) \div 2 ) => pc # "ub"


\* the split-radix handles a call on h runs: h and, through fft_half and
\* fft_quarter, the split-radix handles it delegates to
RECURSIVE SplitRadixHandles(_)
SplitRadixHandles(h) ==
    IF IsSplitRadix(h)
    THEN {h} \cup SplitRadixHandles(h.fft_half) \cup SplitRadixHandles(h.fft_quarter)
    ELSE {}

\* the number of nested split-radix handles a call on h passes through
RECURSIVE DelegationDepth(_)
DelegationDepth(h) ==
    IF IsSplitRadix(h)
    THEN 1 + (IF DelegationDepth(h.fft_half) >= DelegationDepth(h.fft_quarter)
              THEN DelegationDepth(h.fft_half)
              ELSE DelegationDepth(h.fft_quarter))
    ELSE 0

\* the number of iterations of a loop over the half-open range r
Iterations(r) == IF r[2] > r[1] THEN r[2] - r[1] ELSE 0

\* the positions of a split-radix process_inline call, in the order the call
\* passes them
StagePcs == <<"called", "checked", "decimated", "half", "quarter1", "quarter3", "done">>

StageNo(p) == CHOOSE i \in 1..Len(StagePcs) : StagePcs[i] = p

\* a split-radix process_inline call has been made and has not ended
InFlight ==
    /\ op = "process_inline"
    /\ IsSplitRadix(handle)
    /\ pc \in {StagePcs[i] : i \in 1..(Len(StagePcs) - 1)}

\* what the stage that follows position p leaves of the memory m
StageOutcome(h, p, m) ==
    CASE p = "called" ->
           IF (IF h.kind = "SplitRadix"
               THEN SplitRadix_checks(h, m.buffer, m.scratch)
               ELSE SplitRadixAvx_checks(h, m.buffer, m.scratch))
           THEN m ELSE Panic(m)
      [] p = "checked" ->
           IF h.kind = "SplitRadix" THEN SplitRadix_decimate(h, m)
           ELSE SplitRadixAvx_decimate(h, m)
      [] p = "decimated" ->
           IF h.kind = "SplitRadix" THEN SplitRadix_inner_half(h, m)
           ELSE SplitRadixAvx_inner_half(h, m)
      [] p = "half" ->
           IF h.kind = "SplitRadix" THEN SplitRadix_inner_quarter1(h, m)
           ELSE SplitRadixAvx_inner_quarter1(h, m)
      [] p = "quarter1" ->
           IF h.kind = "SplitRadix" THEN SplitRadix_inner_quarter3(h, m)
           ELSE SplitRadixAvx_inner_quarter3(h, m)
      [] p = "quarter3" ->
           IF h.kind = "SplitRadix" THEN SplitRadix_recombine(h, m)
           ELSE SplitRadixAvx_recombine(h, m)

\* the handles short enough for the enabledness of the next stage to be
\* computed
SmallLen == 4

\* a call in flight is never stuck: its next stage runs to an outcome, and
\* the step taking it there is enabled
NextStageRuns ==
    InFlight =>
      /\ StageOutcome(handle, pc, Mem(buffer, scratch, "ok")).status
             \in {"ok", "panic", "ub"}
      /\ HLen(handle) <= SmallLen => ENABLED <<Running>>_vars

\* every step of a call in flight takes it to the next position or ends it
StageAdvances ==
    InFlight =>
      \/ pc' \in {"panicked", "ub"}
      \/ StageNo(pc') = StageNo(pc) + 1

NoEmptyScalar(h) ==
    \A s \in SplitRadixHandles(h) : ~(s.kind = "SplitRadix" /\ HLen(s) = 0)

SimdCallChecked ==
    /\ handle.kind = "SplitRadixAvx"
    /\ op = "process_inline"
    /\ Len(orig.buffer) = HLen(handle)
    /\ Len(orig.scratch) >= HLen(handle) \div 2 + 1

\* C24: for every N divisible by 16, a buffer of length N and a scratch of
\* at least N/2 + 1 elements, every 4-sample load and store of
\* perform_fft_f32 lies inside the slice it addresses; the store of the
\* second odd quarter at offset 4i + 1 reaches scratch index N/2, the one
\* extra slot, and no scratch element above index N/2 is touched
SimdIndicesInBounds ==
    /\ [](handle.kind = "SplitRadixAvx" =>
            /\ HLen(handle) % 16 = 0
            /\ get_required_scratch_len(handle) = HLen(handle) \div 2 + 1)
    /\ [][(SimdCallChecked /\ pc \in {"checked", "quarter3"}) => pc' # "ub"]_vars
    /\ [](SimdCallChecked =>
            /\ Len(scratch) = Len(orig.scratch)
            /\ \A k \in (HLen(handle) \div 2 + 2)..Len(scratch) :
                   scratch[k] = orig.scratch[k]
            /\ (pc \in {"decimated", "half", "quarter1", "quarter3", "done"}
                  /\ HLen(handle) > 0) =>
                 scratch[HLen(handle) \div 2 + 1] = orig.buffer[HLen(handle)])

\* a call with two surplus scratch elements has returned
SimdIndicesInBoundsWitness ==
    /\ SimdCallChecked
    /\ pc = "done"
    /\ HLen(handle) = 32
    /\ Len(orig.scratch) = HLen(handle) \div 2 + 3
    /\ scratch[HLen(handle) \div 2 + 1] = orig.buffer[HLen(handle)]


\* the iterations of the recombination loop of h
RecombineIterations(h) ==
    LET r == IF h.kind = "SplitRadix" THEN SplitRadix_recombine_range(h)
             ELSE SplitRadixAvx_recombine_range(h)
    IN  r[1]..(r[2] - 1)

\* the buffer indices behind slot k of the accesses acc of one iteration: one
\* element in the scalar loop, a block of four in the SIMD loop
AccessSet(h, acc, k) ==
    IF h.kind = "SplitRadix" THEN {acc[k]} ELSE {acc[k] + d : d \in 0..3}

RecombineReads(h, i) ==
    IF h.kind = "SplitRadix" THEN SplitRadix_recombine_reads(h, i)
    ELSE SplitRadixAvx_recombine_reads(h, i)

RecombineWrites(h, i) ==
    IF h.kind = "SplitRadix" THEN SplitRadix_recombine_writes(h, i)
    ELSE SplitRadixAvx_recombine_writes(h, i)

RecombineStep(h, m, i) ==
    IF h.kind = "SplitRadix" THEN SplitRadix_recombine_step(h, m, i)
    ELSE SplitRadixAvx_recombine_step(h, m, i)

\* C25: the recombination loop writes every buffer index in [0, N) exactly
\* once (indices i, i + N/4, i + N/2, i + 3N/4 for i < N/4 in the scalar
\* loop, the 4-wide blocks at 4i, 4i + N/4, 4i + N/2, 4i + 3N/4 for i < N/16
\* in the SIMD loop), and every read of buffer[k] and buffer[k + N/4] comes
\* before any write to that index, so it returns the value the inner half
\* transform produced
RecombinesOnce ==
    [][(pc = "quarter3" /\ pc' = "done") =>
        LET h == handle
            its == RecombineIterations(h)
        IN  /\ \A x \in 0..(HLen(h) - 1) :
                 Cardinality({<<i, k>> \in its \X (1..4) :
                     x \in AccessSet(h, RecombineWrites(h, i), k)}) = 1
            /\ \A i \in its : \A k \in 1..4 :
                 AccessSet(h, RecombineWrites(h, i), k) \subseteq 0..(HLen(h) - 1)
            /\ \A i \in its : \A j \in its : j < i =>
                 \A k \in 1..2 : \A l \in 1..4 :
                   AccessSet(h, RecombineReads(h, i), k)
                     \cap AccessSet(h, RecombineWrites(h, j), l) = {}
            /\ \A i \in its : \A k \in 1..4 :
                 \A x \in AccessSet(h, RecombineWrites(h, i), k) :
                   At(buffer', x) =
                     At(RecombineStep(h, Mem(buffer, scratch, "ok"), i).buffer, x)]_vars

\* a scalar handle of N = 16 has recombined, in four iterations, inner
\* results that differ from each other
RecombinesOnceWitness ==
    /\ pc = "done"
    /\ op = "process_inline"
    /\ handle.kind = "SplitRadix"
    /\ HLen(handle) = 16
    /\ orig.buffer = Ramp(16)
    /\ At(buffer, 1) # At(buffer, 5)


\* a process_inline call on a split-radix handle with a buffer of the
\* handle's length and a scratch of at least the advertised length
SplitRadixCallChecked ==
    /\ op = "process_inline"
    /\ IsSplitRadix(handle)
    /\ pc \notin {"start", "idle"}
    /\ Len(orig.buffer) = HLen(handle)
    /\ Len(orig.scratch) >= get_required_scratch_len(handle)

\* scratch slices that differ from the one of the call in contents, and in
\* length too
OtherScratches(h) ==
    {Ramp(get_required_scratch_len(h)), Ones(get_required_scratch_len(h) + 1)}

\* C26: two process_inline calls on the same SplitRadix or SplitRadixAvx
\* handle with equal buffers, whose scratch slices differ in contents or in
\* length (each at least the requirement), end with equal buffers, and
\* neither modifies a scratch element beyond the advertised requirement
ScratchIndependent ==
    SplitRadixCallChecked =>
      /\ pc # "ub"
      /\ Len(scratch) = Len(orig.scratch)
      /\ \A k \in (get_required_scratch_len(handle) + 1)..Len(scratch) :
             scratch[k] = orig.scratch[k]
      /\ pc = "done" =>
           \A s \in OtherScratches(handle) :
             LET other == process_inline(handle, orig.buffer, s)
             IN  /\ other.status = "ok"
                 /\ other.buffer = buffer
                 /\ \A k \in (get_required_scratch_len(handle) + 1)..Len(s) :
                        other.scratch[k] = s[k]


\* one of the length checks of the method in flight itself fails on the
\* slices the caller passed
OwnLengthCheckFails ==
    /\ pc \notin {"start", "idle", "ctor_err", "ctor_panic"}
    /\ \/ BadLengths
       \/ /\ op = "process_multi"
          /\ \/ Len(orig.buffer) % HLen(handle) # 0
             \/ Len(orig.buffer) # Len(orig.output)
             \/ Len(orig.scratch) < handle.common_data.outofplace_scratch_len
       \/ /\ op = "process_inplace_multi"
          /\ \/ Len(orig.buffer) % HLen(handle) # 0
             \/ Len(orig.scratch) < handle.common_data.inplace_scratch_len

\* C27: when process_inline (SplitRadix, SplitRadixAvx, the kernels),
\* process_with_scratch, process_multi, process_inplace_with_scratch or
\* process_inplace_multi aborts on one of its own length checks, the call has
\* written no element of its buffer, input, output or scratch: the checks
\* come before the first write
NoWriteBeforeAbort ==
    OwnLengthCheckFails =>
      /\ pc \in {"called", "panicked"}
      /\ buffer = orig.buffer
      /\ output = orig.output
      /\ scratch = orig.scratch

\* process_inplace_with_scratch has aborted on its scratch check, the buffer
\* being of the right length
NoWriteBeforeAbortWitness ==
    /\ pc = "panicked"
    /\ op = "process_inplace_with_scratch"
    /\ Len(orig.buffer) = HLen(handle)
    /\ Len(orig.buffer) > 0
    /\ Len(orig.scratch) < handle.common_data.inplace_scratch_len
    /\ diag.operand = "Scratch"
    /\ buffer = orig.buffer


(***************************************************************************)
(* The vector macros on their own: a macro is applied to vectors of four   *)
(* complex samples.  The operands are left in buffer and scratch, the      *)
(* result in output, the direction flag (if the macro takes one) in calls. *)
(***************************************************************************)
\* the vectors the macros are tried on
Vectors ==
    {load_avx_f32(Ramp(16), o) : o \in {0, 4, 8, 12}}
    \cup {load_avx_f32(Junk(8), o) : o \in {0, 4}}

\* the columns the transpose is tried on
Columns == {load_avx_f32(Ramp(16), o) : o \in {0, 4, 8, 12}}

\* the samples of several vectors, one vector after the other
RECURSIVE SamplesOf(_)
SamplesOf(vs) == IF vs = <<>> THEN <<>> ELSE Samples(Head(vs)) \o SamplesOf(Tail(vs))

\* macro name was applied to the operands a and b, with the flags, and
\* returned the vectors out; again is what the macro makes of out
Applied(name, a, b, flags, out, again) ==
    /\ pc' = "applied"
    /\ op' = name
    /\ buffer' = SamplesOf(a)
    /\ scratch' = SamplesOf(b)
    /\ calls' = flags
    /\ output' = SamplesOf(out)
    /\ orig' = Slices(SamplesOf(a), SamplesOf(again), SamplesOf(b))
    /\ UNCHANGED <<handle, ctor, hist, diag, heap, threads>>

Apply_complex_multiply_f32 ==
    /\ pc = "start"
    /\ \E left \in Vectors, right \in Vectors :
         Applied("complex_multiply_f32", <<left>>, <<right>>, <<>>,
                 <<complex_multiply_f32(left, right)>>, <<>>)

Apply_complex_conj_multiply_f32 ==
    /\ pc = "start"
    /\ \E left \in Vectors, right \in Vectors :
         Applied("complex_conj_multiply_f32", <<left>>, <<right>>, <<>>,
                 <<complex_conj_multiply_f32(left, right)>>, <<>>)

Apply_butterfly4_twiddle_avx_f32 ==
    /\ pc = "start"
    /\ \E elements \in Vectors, inverse \in BOOLEAN :
         Applied("butterfly4_twiddle_avx_f32", <<elements>>, <<>>, <<inverse>>,
                 <<butterfly4_twiddle_avx_f32(elements, inverse)>>, <<>>)

Apply_butterfly4_twiddle_alternating_avx_f32 ==
    /\ pc = "start"
    /\ \E elements \in Vectors, inverse \in BOOLEAN :
         Applied("butterfly4_twiddle_alternating_avx_f32", <<elements>>, <<>>,
                 <<inverse>>,
                 <<butterfly4_twiddle_alternating_avx_f32(elements, inverse)>>,
                 <<>>)

Apply_transpose_4x4_f32 ==
    /\ pc = "start"
    /\ \E col0 \in Columns, col1 \in Columns, col2 \in Columns, col3 \in Columns :
         \E out \in {transpose_4x4_f32(col0, col1, col2, col3)} :
           Applied("transpose_4x4_f32", <<col0, col1, col2, col3>>, <<>>, <<>>,
                   out, transpose_4x4_f32(out[1], out[2], out[3], out[4]))

NextLanes ==
    \/ Apply_complex_multiply_f32
    \/ Apply_complex_conj_multiply_f32
    \/ Apply_butterfly4_twiddle_avx_f32
    \/ Apply_butterfly4_twiddle_alternating_avx_f32
    \/ Apply_transpose_4x4_f32

SpecLanes == Init /\ [][NextLanes]_vars

\* C28: in every lane complex_multiply_f32(left = a + bi, right = c + di) is
\* (ac - bd) + (ad + bc)i and complex_conj_multiply_f32 is
\* conj(left) * right = (ac + bd) + (ad - bc)i; a lane of the result depends
\* on the same lane of the operands only
ComplexMultiplyLanes ==
    pc = "applied" =>
      \A lane \in 1..4 :
        LET a == buffer[lane][1]
            b == buffer[lane][2]
            c == scratch[lane][1]
            d == scratch[lane][2]
        IN  /\ op = "complex_multiply_f32" =>
                 output[lane] = <<(a * c - b * d) % P, (a * d + b * c) % P>>
            /\ op = "complex_conj_multiply_f32" =>
                 output[lane] = <<(a * c + b * d) % P, (a * d - b * c) % P>>

\* the two products of operands under which they differ in every lane
ComplexMultiplyLanesWitness ==
    /\ pc = "applied"
    /\ op = "complex_conj_multiply_f32"
    /\ buffer # scratch
    /\ \A lane \in 1..4 :
         /\ buffer[lane][2] # 0
         /\ output[lane] # CMul(buffer[lane], scratch[lane])
         /\ output[lane] = CMul(CConj(buffer[lane]), scratch[lane])

\* C29: butterfly4_twiddle_avx_f32 takes every lane (re, im) to (im, -re)
\* when inverse is false and to (-im, re) when it is true;
\* butterfly4_twiddle_alternating_avx_f32 does so to the complex lanes 1 and
\* 3 and leaves the lanes 0 and 2 as they are
TwiddleRotationLanes ==
    (pc = "applied" /\ op \in {"butterfly4_twiddle_avx_f32",
                               "butterfly4_twiddle_alternating_avx_f32"}) =>
      \A lane \in 0..3 :
        LET re == At(buffer, lane)[1]
            im == At(buffer, lane)[2]
            rotated == IF calls[1] THEN <<(0 - im) % P, re>>
                       ELSE <<im, (0 - re) % P>>
        IN  At(output, lane) =
              IF op = "butterfly4_twiddle_avx_f32" \/ lane \in {1, 3}
              THEN rotated ELSE <<re, im>>

\* the alternating rotation of the inverse direction was applied
TwiddleRotationLanesWitness ==
    /\ pc = "applied"
    /\ op = "butterfly4_twiddle_alternating_avx_f32"
    /\ calls = <<TRUE>>
    /\ At(output, 0) = At(buffer, 0)
    /\ At(output, 1) # At(buffer, 1)
    /\ At(output, 1) = rotate_90(At(buffer, 1), TRUE)

\* C30: transpose_4x4_f32(col0, col1, col2, col3) returns rows out_0 .. out_3
\* with complex lane c of out_r = complex lane r of col_c: a permutation of
\* the 16 values, and applied to its own result it returns the columns
Transpose4x4Lanes ==
    (pc = "applied" /\ op = "transpose_4x4_f32") =>
      /\ Len(buffer) = 16 /\ Len(output) = 16
      /\ \A r \in 0..3 : \A c \in 0..3 :
           At(output, 4 * r + c) = At(buffer, 4 * c + r)
      /\ orig.output = buffer

\* four different columns were transposed
Transpose4x4LanesWitness ==
    /\ pc = "applied"
    /\ op = "transpose_4x4_f32"
    /\ Cardinality({buffer[k] : k \in 1..16}) = 16
    /\ output # buffer

=============================================================================
